---- MODULE Spec2Model ----
(***************************************************************************)
(* Model of reaper-rs' high-level ReaperSession                            *)
(* (src/main/high/src/reaper_session.rs): the two bounded task channels,   *)
(* the activation life cycle, the audio hook and the command registry.     *)
(***************************************************************************)
EXTENDS Integers, Sequences, FiniteSets, TLC

(***************************************************************************)
(* Bounds.  The two channel capacities keep the names of the source; their *)
(* values (1000 and 500 in the source) are scaled down.                   *)
(***************************************************************************)
MAX_MAIN_THREAD_TASKS == 2
MAX_AUDIO_THREAD_TASKS == 2
MaxTasks == 3
MaxTime == 2
MaxWait == 1
MaxCommands == 2
MaxRegistrations == 2
MaxInvocations == 1
MaxGuards == 2
MaxHolders == 2
MaxObservers == 3
MaxPublishes == 2
MaxMidiInputs == 2
MaxMidiEvents == 1
MaxUndoBlocks == 2
MaxValue == 1
MaxChanges == 2
MaxBlockEvents == 2
MaxRaw == 8

Threads == {"main", "audio"}
TaskIds == 1..MaxTasks
CommandIds == 1..MaxCommands
Closures == 1..MaxRegistrations

(* Two of the subjects of MainSubjects *)
SubjectNames == {"action_invoked", "track_added"}

(* for i in 0..self.session.medium.get_max_midi_inputs() *)
MidiInputDeviceIds == 0..(MaxMidiInputs - 1)

(* What a task's closure does when it is run: return, panic, or (given the  *)
(* RealTimeReaperSession) subscribe to midi_message_received().             *)
TaskOps == {"plain", "panics", "subscribes"}

(* Two of the properties the control surface watches, in the order it       *)
(* compares them.                                                          *)
WatchedProperties == <<"track_name", "track_selected">>

WatchedPropertySet == {WatchedProperties[i] : i \in 1..Len(WatchedProperties)}

VARIABLES
    main_queue,      \* main_thread_task_channel: Seq of MainThreadTask
    audio_queue,     \* audio_thread_task_channel: Seq of task ids
    active_data,     \* Option<ActiveData>: <<>> (None) or <<handles>> (Some)
    host_registered, \* what the host currently has registered, in registration order
    host_calls,      \* what the most recent activate()/deactivate() did, in program order
    logger,          \* warnings written by discard_*_tasks
    blocked,         \* per thread: the Sender::send call it is parked in, if any
    now,             \* SystemTime::now()
    next_task,       \* identity of the next closure handed to a scheduling call
    last_call,       \* the most recent call and how it ended
    executed,        \* history: closures that ran, in order, with their consumer
    executed_early,  \* history: ids a drain cycle ran before the time asked for
    requested,       \* history: what execute_in_main_thread was asked for
    discarded_main,  \* history: ids the main queue held (or took in) while activate() drained it
    discarded_audio, \* history: the same for the audio queue
    overdue_seen,    \* history: ids left unexecuted by a drain cycle at/after their deadline
    command_by_id,   \* RefCell<HashMap<CommandId, Command>>: the map
    command_by_id_borrow, \* its borrow flag: 0 free, n > 0 shared borrows, -1 exclusive
    host_gaccel,     \* action entries (gaccel_register_t) the host lists
    registered_actions, \* RegisteredAction values handed out to callers
    stack,           \* hook-command dispatches whose operation is running
    invocations,     \* per closure: how often it was invoked
    next_rc,         \* identity of the next closure passed to register_action
    REAPER_GUARD,    \* Mutex<Weak<ReaperGuard>>: the allocation the Weak names, poison flag
    guard_strong,    \* strong count of that allocation (Arc<ReaperGuard> handles alive)
    subjects,        \* per subject: its observers, in the order they subscribed
    subjects_borrow, \* per subject: borrow flag of its RefCell (0 free, -1 exclusive)
    publishing,      \* next() calls in progress, innermost last
    delivered,       \* history: every value handed to an observer, in order
    next_publish,    \* identity of the next top-level publish
    registry_log,    \* what the most recent registry call did to host and map, in program order
    task_ops,        \* per task id: what the closure handed to the scheduling call does
    panicked,        \* history: the tasks whose closure panicked in a drain cycle
    midi_observers,  \* subscribed_size() of midi_message_received of the current audio hook
    midi_inputs,     \* per MIDI input device: the events in its read buffer
    midi_read,       \* devices whose buffer the most recent audio hook call read, in order
    midi_pushed,     \* events the most recent audio hook call pushed to the subject, in order
    undo_block_is_active, \* Cell<bool>
    host_undo,       \* Undo_BeginBlock2 / Undo_EndBlock2 calls the host received, in order
    host_state,      \* per watched property: the value the host reports when queried
    observed,        \* per watched property: the value the control surface observed last
    change_events,   \* change events the most recent run cycle published, in order
    changes,         \* how often the host changed a watched property
    INIT_INSTANCE,   \* std::sync::Once: TRUE once call_once has run its closure
    static_INSTANCE, \* INSTANCE: Option<ReaperSession>, 0 (None) or the number of the session stored
    automation_raw,  \* an i32 held by a caller of the AutomationMode conversions
    automation_mode  \* a Result<AutomationMode, _> held by that caller, or NotConverted

sched_vars == <<main_queue, audio_queue, active_data, host_registered, host_calls, logger,
                blocked, now, next_task, executed, executed_early, requested,
                discarded_main, discarded_audio, overdue_seen>>

reg_vars == <<command_by_id, command_by_id_borrow, host_gaccel, registered_actions, stack,
              invocations, next_rc, registry_log>>

guard_vars == <<REAPER_GUARD, guard_strong>>

bus_vars == <<subjects, subjects_borrow, publishing, delivered, next_publish>>

drain_vars == <<task_ops, panicked>>

midi_vars == <<midi_observers, midi_inputs, midi_read, midi_pushed>>

undo_vars == <<undo_block_is_active, host_undo>>

watch_vars == <<host_state, observed, change_events, changes>>

setup_vars == <<INIT_INSTANCE, static_INSTANCE>>

conv_vars == <<automation_raw, automation_mode>>

rest_vars == <<drain_vars, midi_vars, undo_vars, watch_vars, setup_vars, conv_vars>>

vars == <<sched_vars, last_call, reg_vars, guard_vars, bus_vars, rest_vars>>

----------------------------------------------------------------------------
(* Helpers *)

Range(s) == {s[i] : i \in 1..Len(s)}

RECURSIVE SeqSum(_)
SeqSum(s) == IF s = <<>> THEN 0 ELSE Head(s) + SeqSum(Tail(s))

RemoveFirst(s, x) ==
    LET idx == {i \in 1..Len(s) : s[i] = x} IN
    IF idx = {} THEN s
    ELSE LET k == CHOOSE i \in idx : \A j \in idx : i <= j IN
         SubSeq(s, 1, k - 1) \o SubSeq(s, k + 1, Len(s))

NotBlocked == [queue |-> "none", id |-> 0, some |-> FALSE, at |-> 0, op |-> "none"]

Call(op, thread, id, full, result) ==
    [op |-> op, thread |-> thread, id |-> id, was_full |-> full, result |-> result]

----------------------------------------------------------------------------
(* MainThreadTask *)

(* Mutant: the desired execution time is not stored. *)
MainThreadTask_without_deadline(id, some, at) == [id |-> id, some |-> FALSE, at |-> 0]

MainThreadTask(id, some, at) == [id |-> id, some |-> some, at |-> at]

QueueIds(q) == {q[i].id : i \in 1..Len(q)}

----------------------------------------------------------------------------
(* State after ReaperBuilder::setup *)

(* The fields of a session as setup creates it, and a host and a process    *)
(* that have not dealt with a session yet                                   *)
NothingHappened ==
    /\ main_queue = <<>>
    /\ audio_queue = <<>>
    /\ active_data = <<>>
    /\ host_registered = <<>>
    /\ host_calls = <<>>
    /\ logger = <<>>
    /\ blocked = [t \in Threads |-> NotBlocked]
    /\ now = 0
    /\ next_task = 1
    /\ executed = <<>>
    /\ executed_early = {}
    /\ requested = {}
    /\ discarded_main = {}
    /\ discarded_audio = {}
    /\ overdue_seen = {}
    /\ command_by_id = <<>>
    /\ command_by_id_borrow = 0
    /\ host_gaccel = {}
    /\ registered_actions = {}
    /\ stack = <<>>
    /\ invocations = [rc \in Closures |-> 0]
    /\ next_rc = 1
    /\ REAPER_GUARD = [weak |-> 0, poisoned |-> FALSE]
    /\ guard_strong = 0
    /\ subjects = [s \in SubjectNames |-> <<>>]
    /\ subjects_borrow = [s \in SubjectNames |-> 0]
    /\ publishing = <<>>
    /\ delivered = <<>>
    /\ next_publish = 1
    /\ registry_log = <<>>
    /\ task_ops = [id \in TaskIds |-> "plain"]
    /\ panicked = <<>>
    /\ midi_observers = 0
    /\ midi_inputs = [i \in MidiInputDeviceIds |-> <<>>]
    /\ midi_read = <<>>
    /\ midi_pushed = <<>>
    /\ undo_block_is_active = FALSE
    /\ host_undo = <<>>
    /\ host_state = [p \in WatchedPropertySet |-> 0]
    /\ observed = [p \in WatchedPropertySet |-> 0]
    /\ change_events = <<>>
    /\ changes = 0

(* No AutomationMode conversion has been asked for *)
NotConverted == [ok |-> FALSE, mode |-> "none"]

NoConversion ==
    /\ automation_raw = 0
    /\ automation_mode = NotConverted

Init ==
    /\ NothingHappened
    /\ last_call = Call("setup", "main", 0, FALSE, "done")
    /\ INIT_INSTANCE = TRUE
    /\ static_INSTANCE = 1
    /\ NoConversion

(* State of the process after Reaper::load(context), before any setup *)
InitLoaded ==
    /\ NothingHappened
    /\ last_call = Call("load", "main", 0, FALSE, "done")
    /\ INIT_INSTANCE = FALSE
    /\ static_INSTANCE = 0
    /\ NoConversion

----------------------------------------------------------------------------
(* crossbeam_channel::Sender::send on a bounded channel, as the scheduling  *)
(* calls use it: it enqueues when there is room and otherwise parks the     *)
(* calling thread until there is room.  It returns Err only when every      *)
(* Receiver is gone, and the session itself keeps both Receivers for the    *)
(* whole life of the process, so Err is never produced.                    *)

(* Mutant: the task is enqueued whether or not there is room. *)
MainSend_overfilling(t, task, op) ==
    /\ main_queue' = Append(main_queue, task)
    /\ blocked' = blocked
    /\ last_call' = Call(op, t, task.id, FALSE, "Ok")

MainSend(t, task, op) ==
    IF Len(main_queue) < MAX_MAIN_THREAD_TASKS
    THEN /\ main_queue' = Append(main_queue, task)
         /\ blocked' = blocked
         /\ last_call' = Call(op, t, task.id, FALSE, "Ok")
    ELSE /\ blocked' = [blocked EXCEPT ![t] =
                [queue |-> "main", id |-> task.id, some |-> task.some,
                 at |-> task.at, op |-> op]]
         /\ last_call' = Call(op, t, task.id, TRUE, "Blocked")
         /\ UNCHANGED main_queue

(* Mutant: a new task goes to the front of the audio queue. *)
AudioSend_at_front(t, id, op) ==
    IF Len(audio_queue) < MAX_AUDIO_THREAD_TASKS
    THEN /\ audio_queue' = <<id>> \o audio_queue
         /\ blocked' = blocked
         /\ last_call' = Call(op, t, id, FALSE, "Ok")
    ELSE /\ blocked' = [blocked EXCEPT ![t] =
                [queue |-> "audio", id |-> id, some |-> FALSE, at |-> 0, op |-> op]]
         /\ last_call' = Call(op, t, id, TRUE, "Blocked")
         /\ UNCHANGED audio_queue

AudioSend(t, id, op) ==
    IF Len(audio_queue) < MAX_AUDIO_THREAD_TASKS
    THEN /\ audio_queue' = Append(audio_queue, id)
         /\ blocked' = blocked
         /\ last_call' = Call(op, t, id, FALSE, "Ok")
    ELSE /\ blocked' = [blocked EXCEPT ![t] =
                [queue |-> "audio", id |-> id, some |-> FALSE, at |-> 0, op |-> op]]
         /\ last_call' = Call(op, t, id, TRUE, "Blocked")
         /\ UNCHANGED audio_queue

(* Mutant: the waiting time is dropped. *)
desired_execution_time_without_wait(waiting_time) == now

(* Some(SystemTime::now() + waiting_time) *)
desired_execution_time(waiting_time) == now + waiting_time

execute_in_main_thread(t, waiting_time) ==
    /\ blocked[t] = NotBlocked
    /\ next_task <= MaxTasks
    /\ MainSend(t, MainThreadTask(next_task, TRUE, desired_execution_time(waiting_time)),
                "execute_in_main_thread")
    /\ next_task' = next_task + 1
    /\ requested' = requested \cup
         {[id |-> next_task, not_before |-> now + waiting_time, waited |-> waiting_time > 0]}
    /\ UNCHANGED <<audio_queue, active_data, host_registered, host_calls, logger, now,
                   executed, executed_early, discarded_main, discarded_audio,
                   overdue_seen>>
    /\ UNCHANGED <<reg_vars, guard_vars, bus_vars, rest_vars>>

(* execute_asap_in_main_thread(op), for a closure op that does what `op` says *)
execute_asap_in_main_thread_with(t, op) ==
    /\ blocked[t] = NotBlocked
    /\ next_task <= MaxTasks
    /\ MainSend(t, MainThreadTask(next_task, FALSE, 0), "execute_asap_in_main_thread")
    /\ next_task' = next_task + 1
    /\ task_ops' = [task_ops EXCEPT ![next_task] = op]
    /\ UNCHANGED <<requested, audio_queue, active_data, host_registered, host_calls,
                   logger, now, executed, executed_early, discarded_main,
                   discarded_audio, overdue_seen>>
    /\ UNCHANGED <<reg_vars, guard_vars, bus_vars, panicked, midi_vars, undo_vars, watch_vars, setup_vars, conv_vars>>

execute_asap_in_main_thread(t) == execute_asap_in_main_thread_with(t, "plain")

(* execute_asap_in_audio_thread(op), for a closure op that does what `op` says *)
execute_asap_in_audio_thread_with(t, op) ==
    /\ blocked[t] = NotBlocked
    /\ next_task <= MaxTasks
    /\ AudioSend(t, next_task, "execute_asap_in_audio_thread")
    /\ next_task' = next_task + 1
    /\ task_ops' = [task_ops EXCEPT ![next_task] = op]
    /\ UNCHANGED <<main_queue, active_data, host_registered, host_calls, logger, now,
                   executed, executed_early, requested, discarded_main, discarded_audio,
                   overdue_seen>>
    /\ UNCHANGED <<reg_vars, guard_vars, bus_vars, panicked, midi_vars, undo_vars, watch_vars, setup_vars, conv_vars>>

execute_asap_in_audio_thread(t) == execute_asap_in_audio_thread_with(t, "plain")

(* A parked send resumes once the consumer side has made room. *)
send_completes(t) ==
    /\ blocked[t] # NotBlocked
    /\ \/ /\ blocked[t].queue = "main"
          /\ Len(main_queue) < MAX_MAIN_THREAD_TASKS
          /\ main_queue' = Append(main_queue,
                 MainThreadTask(blocked[t].id, blocked[t].some, blocked[t].at))
          /\ UNCHANGED audio_queue
       \/ /\ blocked[t].queue = "audio"
          /\ Len(audio_queue) < MAX_AUDIO_THREAD_TASKS
          /\ audio_queue' = Append(audio_queue, blocked[t].id)
          /\ UNCHANGED main_queue
    /\ blocked' = [blocked EXCEPT ![t] = NotBlocked]
    /\ last_call' = Call(blocked[t].op, t, blocked[t].id, TRUE, "Ok")
    /\ UNCHANGED <<active_data, host_registered, host_calls, logger, now, next_task,
                   executed, executed_early, requested, discarded_main, discarded_audio,
                   overdue_seen>>
    /\ UNCHANGED <<reg_vars, guard_vars, bus_vars, rest_vars>>

----------------------------------------------------------------------------
(* Discarding stale tasks (called by activate only).  Receiver::try_iter()  *)
(* takes messages until the channel is seen empty; a send parked on the     *)
(* full channel may get its message in while the drain runs (slip) and is   *)
(* then consumed by the same drain.                                        *)

ParkedOn(q) == {t \in Threads : blocked[t].queue = q}

(* try_iter().count() *)
TryIterCount(q, slip) == Len(q) + Cardinality(slip)

(* if task_count > 0 { slog::warn!(...; "task_count" => task_count) } *)
DiscardWarning(msg, task_count) ==
    IF task_count > 0 THEN <<[msg |-> msg, task_count |-> task_count]>> ELSE <<>>

discard_main_thread_tasks(slip) ==
    main_queue' = <<>>

(* Mutant: the audio queue is counted but not drained. *)
discard_audio_thread_tasks_keeping(slip) ==
    audio_queue' = audio_queue

discard_audio_thread_tasks(slip) ==
    audio_queue' = <<>>

discard_pending_tasks(slip_m, slip_a) ==
    /\ discard_main_thread_tasks(slip_m)
    /\ discard_audio_thread_tasks(slip_a)
    /\ logger' = logger
         \o DiscardWarning("Discarded main thread tasks on reactivation",
                           TryIterCount(main_queue, slip_m))
         \o DiscardWarning("Discarded audio thread tasks on reactivation",
                           TryIterCount(audio_queue, slip_a))
    /\ blocked' = [t \in Threads |->
                     IF t \in slip_m \cup slip_a THEN NotBlocked ELSE blocked[t]]

----------------------------------------------------------------------------
(* Lifecycle *)

ActivateRegistrations ==
    <<"hook_command", "toggle_action", "hook_post_command", "csurf_inst", "audio_hook">>

(* Mutant: the removals are issued in the order of registration. *)
DeactivateRemovals_in_registration_order ==
    <<"hook_command", "toggle_action", "hook_post_command", "csurf_inst", "audio_hook">>

DeactivateRemovals ==
    <<"audio_hook", "csurf_inst", "hook_post_command", "toggle_action", "hook_command">>

(* What activate() does to the host and to active_data, in program order:  *)
(* the five registrations, then *active_data = Some(..).                   *)
ActivateCalls ==
    [i \in 1..Len(ActivateRegistrations) |-> <<"add", ActivateRegistrations[i]>>]
        \o << <<"store", "active_data">> >>

(* The same for deactivate(): the five removals, then *active_data = None. *)
DeactivateCalls ==
    [i \in 1..Len(DeactivateRemovals) |-> <<"remove", DeactivateRemovals[i]>>]
        \o << <<"clear", "active_data">> >>

ActiveData == [csurf_inst_handle |-> "csurf_inst",
               audio_hook_register_handle |-> "audio_hook"]

(* Mutant: the last removal is left out. *)
RemoveAll_but_last(registered, removals) ==
    SelectSeq(registered,
              LAMBDA r : r \notin {removals[i] : i \in 1..(Len(removals) - 1)})

RECURSIVE RemoveAll(_, _)
RemoveAll(registered, removals) ==
    IF removals = <<>> THEN registered
    ELSE RemoveAll(RemoveFirst(registered, Head(removals)), Tail(removals))

(* Mutant: stale tasks are discarded before the "already active" assertion. *)
activate_discarding_first ==
    /\ blocked["main"] = NotBlocked
    /\ \E slip_m \in SUBSET ParkedOn("main"), slip_a \in SUBSET ParkedOn("audio") :
           /\ discard_pending_tasks(slip_m, slip_a)
           /\ discarded_main' = discarded_main \cup QueueIds(main_queue)
                                   \cup {blocked[t].id : t \in slip_m}
           /\ discarded_audio' = discarded_audio \cup Range(audio_queue)
                                   \cup {blocked[t].id : t \in slip_a}
    /\ IF active_data # <<>>
       THEN /\ last_call' = Call("activate", "main", 0, FALSE, "panic")
            /\ UNCHANGED <<active_data, host_registered, host_calls, midi_observers>>
       ELSE /\ host_registered' = host_registered \o ActivateRegistrations
            /\ host_calls' = ActivateCalls
            /\ active_data' = <<ActiveData>>
            /\ midi_observers' = 0
            /\ last_call' = Call("activate", "main", 0, FALSE, "done")
    /\ UNCHANGED <<now, next_task, executed, executed_early, requested, overdue_seen>>
    /\ UNCHANGED <<reg_vars, bus_vars, drain_vars, midi_inputs, midi_read, midi_pushed,
                   undo_vars, watch_vars, setup_vars, conv_vars>>

activate ==
    /\ blocked["main"] = NotBlocked
    /\ IF active_data # <<>>
       THEN \* assert!(active_data.is_none(), "Reaper is already active")
            /\ last_call' = Call("activate", "main", 0, FALSE, "panic")
            /\ UNCHANGED <<main_queue, audio_queue, active_data, host_registered,
                           host_calls, logger, blocked, discarded_main, discarded_audio,
                           midi_observers>>
       ELSE /\ \E slip_m \in SUBSET ParkedOn("main"), slip_a \in SUBSET ParkedOn("audio") :
                   /\ discard_pending_tasks(slip_m, slip_a)
                   /\ discarded_main' = discarded_main \cup QueueIds(main_queue)
                                           \cup {blocked[t].id : t \in slip_m}
                   /\ discarded_audio' = discarded_audio \cup Range(audio_queue)
                                           \cup {blocked[t].id : t \in slip_a}
            /\ host_registered' = host_registered \o ActivateRegistrations
            /\ host_calls' = ActivateCalls
            /\ active_data' = <<ActiveData>>
            \* midi_message_received: LocalSubject::new()
            /\ midi_observers' = 0
            /\ last_call' = Call("activate", "main", 0, FALSE, "done")
    /\ UNCHANGED <<now, next_task, executed, executed_early, requested, overdue_seen>>
    /\ UNCHANGED <<reg_vars, bus_vars, drain_vars, midi_inputs, midi_read, midi_pushed,
                   undo_vars, watch_vars, setup_vars, conv_vars>>

(* Mutant: deactivate() drains both queues itself. *)
deactivate_draining ==
    /\ blocked["main"] = NotBlocked
    /\ IF active_data = <<>>
       THEN /\ last_call' = Call("deactivate", "main", 0, FALSE, "panic")
            /\ UNCHANGED <<active_data, host_registered, host_calls, main_queue,
                           audio_queue>>
       ELSE /\ host_registered' = RemoveAll(host_registered, DeactivateRemovals)
            /\ host_calls' = DeactivateCalls
            /\ active_data' = <<>>
            /\ main_queue' = <<>>
            /\ audio_queue' = <<>>
            /\ last_call' = Call("deactivate", "main", 0, FALSE, "done")
    /\ UNCHANGED <<logger, blocked, now, next_task, executed, executed_early, requested,
                   discarded_main, discarded_audio, overdue_seen>>
    /\ UNCHANGED <<reg_vars, bus_vars, rest_vars>>

(* Mutant: the removals are issued before active_data is looked at. *)
deactivate_unregistering_first ==
    /\ blocked["main"] = NotBlocked
    /\ host_registered' = RemoveAll(host_registered, DeactivateRemovals)
    /\ host_calls' = DeactivateCalls
    /\ IF active_data = <<>>
       THEN /\ last_call' = Call("deactivate", "main", 0, FALSE, "panic")
            /\ UNCHANGED active_data
       ELSE /\ active_data' = <<>>
            /\ last_call' = Call("deactivate", "main", 0, FALSE, "done")
    /\ UNCHANGED <<main_queue, audio_queue, logger, blocked, now, next_task, executed,
                   executed_early, requested, discarded_main, discarded_audio,
                   overdue_seen>>
    /\ UNCHANGED <<reg_vars, bus_vars, rest_vars>>

deactivate ==
    /\ blocked["main"] = NotBlocked
    /\ IF active_data = <<>>
       THEN \* None => panic!("Reaper is not active")
            /\ last_call' = Call("deactivate", "main", 0, FALSE, "panic")
            /\ UNCHANGED <<active_data, host_registered, host_calls>>
       ELSE /\ host_registered' = RemoveAll(host_registered, DeactivateRemovals)
            /\ host_calls' = DeactivateCalls
            /\ active_data' = <<>>
            /\ last_call' = Call("deactivate", "main", 0, FALSE, "done")
    /\ UNCHANGED <<main_queue, audio_queue, logger, blocked, now, next_task, executed,
                   executed_early, requested, discarded_main, discarded_audio,
                   overdue_seen>>
    /\ UNCHANGED <<reg_vars, bus_vars, rest_vars>>

----------------------------------------------------------------------------
(* Audio hook: invoked by the host on the audio thread while registered *)

Executed(id, by) == [id |-> id, by |-> by]

(* Mutant: try_iter() without take(1). *)
AudioTasksTaken_all == audio_queue

(* self.audio_thread_task_receiver.try_iter().take(1) *)
AudioTasksTaken == SubSeq(audio_queue, 1, IF Len(audio_queue) < 1 THEN Len(audio_queue) ELSE 1)

(* Mutant: the iterator is drained, only the first task of it is run. *)
AudioTasksLeft_none == <<>>

(* What the channel still holds when the loop over try_iter().take(1) ends *)
AudioTasksLeft == SubSeq(audio_queue, Len(AudioTasksTaken) + 1, Len(audio_queue))

(* MIDI.  A borrowed event of the host (raw::MIDI_event_t) carries a frame  *)
(* offset and the message bytes; the owned MidiEvent<RawShortMessage> that   *)
(* is pushed carries the frame offset and the three bytes of the short      *)
(* message.                                                                *)

(* ShortMessageType::ActiveSensing: the status byte 0xFE *)
ActiveSensing == 254

(* Status bytes the host may deliver: 0x90 (NoteOn, channel 0) and 0xFE *)
StatusBytes == {144, ActiveSensing}

RawMidiEvent(frame_offset, status_byte) ==
    [frame_offset |-> frame_offset, midi_message |-> <<status_byte, 0, 0, 0>>]

(* A read buffer holding messages with the given status bytes, at         *)
(* increasing frame offsets                                                *)
MidiBuffer(status_bytes) ==
    [i \in 1..Len(status_bytes) |-> RawMidiEvent(i - 1, status_bytes[i])]

(* What the read buffer of one device may hold *)
MidiBuffers ==
    {MidiBuffer(b) : b \in UNION {[1..n -> StatusBytes] : n \in 0..MaxMidiEvents}}

(* Read buffers of a longer audio block, with up to MaxBlockEvents messages *)
MidiBlocks ==
    {MidiBuffer(b) : b \in UNION {[1..n -> StatusBytes] : n \in 0..MaxBlockEvents}}

(* MidiEvent::frame_offset *)
frame_offset(evt) == evt.frame_offset

(* MidiEvent::message, seen through impl ShortMessage for MidiMessage *)
message(evt) ==
    [status_byte |-> evt.midi_message[1],
     data_byte_1 |-> evt.midi_message[2],
     data_byte_2 |-> evt.midi_message[3]]

(* ShortMessage::type: the whole status byte for system messages (>= 0xF0), *)
(* its upper four bits otherwise.                                          *)
ShortMessageType(msg) ==
    IF msg.status_byte >= 240 THEN msg.status_byte
    ELSE msg.status_byte - (msg.status_byte % 16)

(* ShortMessage::to_other: a RawShortMessage built from the three bytes *)
to_other(msg) == <<msg.status_byte, msg.data_byte_1, msg.data_byte_2>>

(* high-level MidiEvent::new(frame_offset, msg) *)
MidiEvent_new(offset, msg) == [frame_offset |-> offset, msg |-> msg]

(* evt_list.enum_items(bpos): the events of the list from position bpos on *)
enum_items(evt_list, bpos) == SubSeq(evt_list, bpos + 1, Len(evt_list))

(* The body of the loop over one device's events: the owned events handed  *)
(* to subject.next, in buffer order, active sensing left out.              *)
(* Mutant: active sensing is forwarded like any other message. *)
OwnedEvents_forwarding_active_sensing(evts) ==
    [i \in 1..Len(evts) |->
        MidiEvent_new(frame_offset(evts[i]), to_other(message(evts[i])))]

RECURSIVE OwnedEvents(_)
OwnedEvents(evts) ==
    IF evts = <<>> THEN <<>>
    ELSE (IF ShortMessageType(message(Head(evts))) = ActiveSensing
          THEN <<>>
          ELSE <<MidiEvent_new(frame_offset(Head(evts)), to_other(message(Head(evts))))>>)
         \o OwnedEvents(Tail(evts))

(* Mutant: the devices are read whether or not anybody is subscribed. *)
MidiInputsToRead_always(subscribed_size) ==
    [i \in 1..MaxMidiInputs |-> i - 1]

(* if subject.subscribed_size() == 0 { return; }                           *)
(* for i in 0..get_max_midi_inputs() { get_midi_input(i, ..) }            *)
MidiInputsToRead(subscribed_size) ==
    IF subscribed_size = 0 THEN <<>> ELSE [i \in 1..MaxMidiInputs |-> i - 1]

RECURSIVE EventsPushed(_)
EventsPushed(devices) ==
    IF devices = <<>> THEN <<>>
    ELSE OwnedEvents(enum_items(midi_inputs[Head(devices)], 0))
             \o EventsPushed(Tail(devices))

(* Subscriptions made by the tasks a call runs: (task)(&self.session) *)
SubscriptionsBy(tasks) ==
    Cardinality({i \in 1..Len(tasks) : task_ops[tasks[i]] = "subscribes"})

(* Mutant: the task is run but stays in the channel. *)
HighOnAudioBuffer_call_peeking(is_post) ==
    /\ "audio_hook" \in Range(host_registered)
    /\ blocked["audio"] = NotBlocked
    /\ IF is_post
       THEN /\ UNCHANGED <<audio_queue, executed, midi_observers>>
            /\ midi_read' = <<>>
            /\ midi_pushed' = <<>>
       ELSE /\ audio_queue' = audio_queue
            /\ executed' = executed \o
                 [i \in 1..Len(AudioTasksTaken) |-> Executed(AudioTasksTaken[i], "audio_hook")]
            /\ midi_observers' = midi_observers + SubscriptionsBy(AudioTasksTaken)
            /\ midi_read' = MidiInputsToRead(midi_observers')
            /\ midi_pushed' = EventsPushed(midi_read')
    /\ last_call' = Call(IF is_post THEN "on_audio_buffer_post" ELSE "on_audio_buffer_pre",
                         "audio", 0, FALSE, "done")
    /\ UNCHANGED <<main_queue, active_data, host_registered, host_calls, logger, blocked,
                   now, next_task, executed_early, requested, discarded_main,
                   discarded_audio, overdue_seen>>
    /\ UNCHANGED <<reg_vars, guard_vars, bus_vars, drain_vars, midi_inputs, undo_vars,
                   watch_vars, setup_vars, conv_vars>>

(* Mutant: the post phase does the work of the pre phase. *)
HighOnAudioBuffer_call_ignoring_phase(is_post) ==
    /\ "audio_hook" \in Range(host_registered)
    /\ blocked["audio"] = NotBlocked
    /\ audio_queue' = SubSeq(audio_queue, Len(AudioTasksTaken) + 1, Len(audio_queue))
    /\ executed' = executed \o
         [i \in 1..Len(AudioTasksTaken) |-> Executed(AudioTasksTaken[i], "audio_hook")]
    /\ midi_observers' = midi_observers + SubscriptionsBy(AudioTasksTaken)
    /\ midi_read' = MidiInputsToRead(midi_observers')
    /\ midi_pushed' = EventsPushed(midi_read')
    /\ last_call' = Call(IF is_post THEN "on_audio_buffer_post" ELSE "on_audio_buffer_pre",
                         "audio", 0, FALSE, "done")
    /\ UNCHANGED <<main_queue, active_data, host_registered, host_calls, logger, blocked,
                   now, next_task, executed_early, requested, discarded_main,
                   discarded_audio, overdue_seen>>
    /\ UNCHANGED <<reg_vars, guard_vars, bus_vars, drain_vars, midi_inputs, undo_vars,
                   watch_vars, setup_vars, conv_vars>>

HighOnAudioBuffer_call(is_post) ==
    /\ "audio_hook" \in Range(host_registered)
    /\ blocked["audio"] = NotBlocked
    /\ IF is_post
       THEN \* if args.is_post { return; }
            /\ UNCHANGED <<audio_queue, executed, midi_observers>>
            /\ midi_read' = <<>>
            /\ midi_pushed' = <<>>
       ELSE /\ audio_queue' = AudioTasksLeft
            /\ executed' = executed \o
                 [i \in 1..Len(AudioTasksTaken) |-> Executed(AudioTasksTaken[i], "audio_hook")]
            /\ midi_observers' = midi_observers + SubscriptionsBy(AudioTasksTaken)
            /\ midi_read' = MidiInputsToRead(midi_observers')
            /\ midi_pushed' = EventsPushed(midi_read')
    /\ last_call' = Call(IF is_post THEN "on_audio_buffer_post" ELSE "on_audio_buffer_pre",
                         "audio", 0, FALSE, "done")
    /\ UNCHANGED <<main_queue, active_data, host_registered, host_calls, logger, blocked,
                   now, next_task, executed_early, requested, discarded_main,
                   discarded_audio, overdue_seen>>
    /\ UNCHANGED <<reg_vars, guard_vars, bus_vars, drain_vars, midi_inputs, undo_vars,
                   watch_vars, setup_vars, conv_vars>>

(* The host fills the read buffer of a device for the next audio block. *)
MidiInput_receive(device, buffer) ==
    /\ midi_inputs[device] # buffer
    /\ midi_inputs' = [midi_inputs EXCEPT ![device] = buffer]
    /\ UNCHANGED <<midi_observers, midi_read, midi_pushed>>
    /\ UNCHANGED <<sched_vars, last_call, reg_vars, guard_vars, bus_vars, drain_vars,
                   undo_vars, watch_vars, setup_vars, conv_vars>>

----------------------------------------------------------------------------
(* Control surface drain cycle: invoked by the host's main loop while the   *)
(* control surface is registered.                                          *)

ExecutedIds(e) == {e[i].id : i \in 1..Len(e)}

ParkedIds == {blocked[t].id : t \in Threads}

IsDue(task) == (~task.some) \/ task.at <= now

RECURSIVE DueTasks(_)
DueTasks(q) ==
    IF q = <<>> THEN <<>>
    ELSE IF IsDue(Head(q)) THEN <<Head(q)>> \o DueTasks(Tail(q)) ELSE DueTasks(Tail(q))

RECURSIVE NotDueTasks(_)
NotDueTasks(q) ==
    IF q = <<>> THEN <<>>
    ELSE IF IsDue(Head(q)) THEN NotDueTasks(Tail(q)) ELSE <<Head(q)>> \o NotDueTasks(Tail(q))

(* Mutant: the first task that panics ends the cycle. *)
DrainExecuted_until_panic(due) ==
    LET failing == {i \in 1..Len(due) : task_ops[due[i].id] = "panics"} IN
    IF failing = {} THEN due
    ELSE SubSeq(due, 1, CHOOSE i \in failing : \A j \in failing : i <= j)

(* The tasks a cycle executes out of its due tasks: every one of them, a    *)
(* failure of one is isolated.                                             *)
DrainExecuted(due) == due

(* A task that panicked, with the tasks the same cycle executed after it *)
Failure(id, then) == [id |-> id, then |-> then]

Failures(ran) ==
    LET failing == SelectSeq([i \in 1..Len(ran) |-> i],
                             LAMBDA i : task_ops[ran[i].id] = "panics")
    IN [k \in 1..Len(failing) |->
            Failure(ran[failing[k]].id,
                    [j \in 1..(Len(ran) - failing[k]) |-> ran[failing[k] + j].id])]

PropertyValues == 0..MaxValue

ChangeEvent(property, value) == [property |-> property, value |-> value]

(* Mutant: every watched property is reported as changed. *)
PropertyDiffers_always(property) == TRUE

(* previously observed value against freshly queried value *)
PropertyDiffers(property) == host_state[property] # observed[property]

(* One change event per watched property that differs *)
RECURSIVE ChangeEvents(_)
ChangeEvents(properties) ==
    IF properties = <<>> THEN <<>>
    ELSE (IF PropertyDiffers(Head(properties))
          THEN <<ChangeEvent(Head(properties), host_state[Head(properties)])>>
          ELSE <<>>)
         \o ChangeEvents(Tail(properties))

HelperControlSurface_run ==
    /\ "csurf_inst" \in Range(host_registered)
    /\ blocked["main"] = NotBlocked
    /\ main_queue' = NotDueTasks(main_queue)
    /\ LET ran == DrainExecuted(DueTasks(main_queue)) IN
       /\ executed' = executed \o [i \in 1..Len(ran) |-> Executed(ran[i].id, "run")]
       /\ panicked' = panicked \o Failures(ran)
    /\ executed_early' = executed_early \cup
         {r.id : r \in {q \in requested :
               q.id \in QueueIds(DueTasks(main_queue)) /\ now < q.not_before}}
    /\ overdue_seen' = overdue_seen \cup
         {r.id : r \in {q \in requested :
               /\ q.not_before <= now
               /\ q.id \notin ParkedIds
               /\ q.id \notin ExecutedIds(executed')}}
    /\ change_events' = ChangeEvents(WatchedProperties)
    /\ observed' = host_state
    /\ last_call' = Call("run", "main", 0, FALSE, "done")
    /\ UNCHANGED <<audio_queue, active_data, host_registered, host_calls, logger, blocked,
                   now, next_task, requested, discarded_main, discarded_audio>>
    /\ UNCHANGED <<reg_vars, guard_vars, bus_vars, task_ops, midi_vars, undo_vars,
                   host_state, changes, setup_vars, conv_vars>>

(* The host's state changes: a watched property gets another value. *)
Host_changes(property, value) ==
    /\ changes < MaxChanges
    /\ host_state[property] # value
    /\ host_state' = [host_state EXCEPT ![property] = value]
    /\ changes' = changes + 1
    /\ UNCHANGED <<observed, change_events>>
    /\ UNCHANGED <<sched_vars, last_call, reg_vars, guard_vars, bus_vars, drain_vars,
                   midi_vars, undo_vars, setup_vars, conv_vars>>

----------------------------------------------------------------------------
(* Passage of time *)

Tick ==
    /\ now < MaxTime
    /\ now' = now + 1
    /\ UNCHANGED <<main_queue, audio_queue, active_data, host_registered, host_calls,
                   logger, blocked, next_task, last_call, executed, executed_early,
                   requested, discarded_main, discarded_audio, overdue_seen>>
    /\ UNCHANGED <<reg_vars, guard_vars, bus_vars, rest_vars>>

----------------------------------------------------------------------------
(* Command registry.  A command name is represented by the command id the   *)
(* host hands out for it (plugin_register_add_command_id gives the same id  *)
(* for the same name).  A closure is identified by the number of the        *)
(* register_action call that received it.                                  *)

(* An id the host dispatches that this session never registered. *)
ForeignCommandId == MaxCommands + 1

DispatchIds == CommandIds \cup {ForeignCommandId}

(* What a registered operation does when invoked: only count the call, or   *)
(* also register / unregister the action of another command.                *)
OperationBodies == {"invoke", "register", "unregister"}

OtherCommand(command_id) == (command_id % MaxCommands) + 1

(* Operations that, while they run, make the host dispatch a command        *)
(* (Main_OnCommand): their own command or another one.                      *)
NestedDispatchBodies == {"dispatch_same", "dispatch_other"}

NotToggleable == [toggleable |-> FALSE, mock |-> 0]

(* toggleable(move || cloned_mock.invocation_count() % 2 == 1) *)
Toggleable(rc) == [toggleable |-> TRUE, mock |-> rc]

is_on(kind) == invocations[kind.mock] % 2 = 1

Operation(rc, body) == [rc |-> rc, body |-> body]

Command(operation, kind) == [operation |-> operation, kind |-> kind]

RegisteredAction(command_id, gaccel_handle) ==
    [command_id |-> command_id, gaccel_handle |-> gaccel_handle]

(* Mutant: HashMap::insert, which replaces an entry that exists. *)
InsertIfVacant_overwriting(map, command_id, command) ==
    [k \in DOMAIN map \cup {command_id} |-> IF k = command_id THEN command ELSE map[k]]

(* if let Entry::Vacant(p) = ...entry(command_id) { p.insert(command) } *)
InsertIfVacant(map, command_id, command) ==
    IF command_id \in DOMAIN map THEN map
    ELSE [k \in DOMAIN map \cup {command_id} |->
              IF k = command_id THEN command ELSE map[k]]

(* Mutant: HashMap::clear instead of HashMap::remove. *)
RemoveEntry_clearing(map, command_id) == <<>>

(* command_by_id.remove(&command_id) *)
RemoveEntry(map, command_id) == [k \in DOMAIN map \ {command_id} |-> map[k]]

(* RefCell::borrow_mut panics unless the cell is free. *)
BorrowMutFails == command_by_id_borrow # 0

(* What register_action does to the map and to the host, in program order:  *)
(* the insertion (if the entry is vacant), then plugin_register_add_gaccel. *)
RegisterActionCalls(command_id, gaccel_handle) ==
    (IF command_id \in DOMAIN command_by_id THEN <<>>
     ELSE << <<"insert_entry", command_id>> >>)
        \o << <<"add_gaccel", gaccel_handle>> >>

RegisterActionEffect(command_id, operation, kind) ==
    /\ command_by_id' = InsertIfVacant(command_by_id, command_id, Command(operation, kind))
    /\ registry_log' = RegisterActionCalls(command_id, operation.rc)
    /\ host_gaccel' = host_gaccel \cup {RegisteredAction(command_id, operation.rc)}
    /\ registered_actions' =
           registered_actions \cup {RegisteredAction(command_id, operation.rc)}
    /\ next_rc' = next_rc + 1

register_action(command_id, body, toggle) ==
    /\ stack = <<>>
    /\ next_rc <= MaxRegistrations
    /\ IF BorrowMutFails
       THEN /\ last_call' = Call("register_action", "main", command_id, FALSE, "panic")
            /\ registry_log' = <<>>
            /\ UNCHANGED <<command_by_id, host_gaccel, registered_actions, next_rc>>
       ELSE /\ RegisterActionEffect(command_id, Operation(next_rc, body),
                                    IF toggle THEN Toggleable(next_rc) ELSE NotToggleable)
            /\ last_call' = Call("register_action", "main", command_id, FALSE, "done")
    /\ UNCHANGED <<command_by_id_borrow, stack, invocations, sched_vars, guard_vars,
                   bus_vars, rest_vars>>

(* Mutant: the map entry is removed before the host's action entry. *)
UnregisterCommandCalls_entry_first(command_id, gaccel_handle) ==
    IF command_id \in DOMAIN command_by_id
    THEN << <<"remove_entry", command_id>>, <<"remove_gaccel", gaccel_handle>> >>
    ELSE <<>>

(* What unregister_command does to the host and to the map, in program      *)
(* order: plugin_register_remove_gaccel, then command_by_id.remove.        *)
UnregisterCommandCalls(command_id, gaccel_handle) ==
    IF command_id \in DOMAIN command_by_id
    THEN << <<"remove_gaccel", gaccel_handle>>, <<"remove_entry", command_id>> >>
    ELSE <<>>

(* Mutant: the action entry is removed from the host, the map entry stays. *)
unregister_command_keeping_entry(command_id, gaccel_handle) ==
    /\ registry_log' = UnregisterCommandCalls(command_id, gaccel_handle)
    /\ IF command_id \in DOMAIN command_by_id
       THEN /\ host_gaccel' = host_gaccel \ {RegisteredAction(command_id, gaccel_handle)}
            /\ command_by_id' = command_by_id
       ELSE UNCHANGED <<host_gaccel, command_by_id>>

unregister_command(command_id, gaccel_handle) ==
    /\ registry_log' = UnregisterCommandCalls(command_id, gaccel_handle)
    /\ IF command_id \in DOMAIN command_by_id
       THEN /\ host_gaccel' = host_gaccel \ {RegisteredAction(command_id, gaccel_handle)}
            /\ command_by_id' = RemoveEntry(command_by_id, command_id)
       ELSE UNCHANGED <<host_gaccel, command_by_id>>

(* Mutant: the host's action entry is removed whether or not the map has an entry. *)
RegisteredAction_unregister_without_lookup(action) ==
    /\ stack = <<>>
    /\ action \in registered_actions
    /\ IF BorrowMutFails
       THEN /\ last_call' = Call("unregister", "main", action.command_id, FALSE, "panic")
            /\ registry_log' = <<>>
            /\ UNCHANGED <<host_gaccel, command_by_id>>
       ELSE /\ registry_log' = << <<"remove_gaccel", action.gaccel_handle>>,
                                  <<"remove_entry", action.command_id>> >>
            /\ host_gaccel' = host_gaccel \ {action}
            /\ command_by_id' = RemoveEntry(command_by_id, action.command_id)
            /\ last_call' = Call("unregister", "main", action.command_id, FALSE, "done")
    /\ UNCHANGED <<command_by_id_borrow, registered_actions, stack, invocations, next_rc,
                   sched_vars, guard_vars, bus_vars, rest_vars>>

RegisteredAction_unregister(action) ==
    /\ stack = <<>>
    /\ action \in registered_actions
    /\ IF BorrowMutFails
       THEN /\ last_call' = Call("unregister", "main", action.command_id, FALSE, "panic")
            /\ registry_log' = <<>>
            /\ UNCHANGED <<host_gaccel, command_by_id>>
       ELSE /\ unregister_command(action.command_id, action.gaccel_handle)
            /\ last_call' = Call("unregister", "main", action.command_id, FALSE, "done")
    /\ UNCHANGED <<command_by_id_borrow, registered_actions, stack, invocations, next_rc,
                   sched_vars, guard_vars, bus_vars, rest_vars>>

(* Mutant: the Ref obtained for the lookup stays alive while the operation runs. *)
BorrowWhileOperationRuns_held(borrow) == borrow + 1

(* The Ref returned by command_by_id.borrow() is a temporary of the `let`   *)
(* statement that clones the operation; it is dropped when that statement   *)
(* ends, before the operation is invoked.                                  *)
BorrowWhileOperationRuns(borrow) == borrow

(* Mutant: the lookup is unwrapped, an absent id panics. *)
HighLevelHookCommand_call_unwrapping(command_id) ==
    /\ stack = <<>>
    /\ IF command_id \in DOMAIN command_by_id
       THEN LET operation == command_by_id[command_id].operation IN
            /\ invocations[operation.rc] < MaxInvocations
            /\ operation.body = "register" => next_rc <= MaxRegistrations
            /\ stack' = Append(stack, [command_id |-> command_id,
                                       operation |-> operation,
                                       borrow_before |-> command_by_id_borrow])
            /\ command_by_id_borrow' = BorrowWhileOperationRuns(command_by_id_borrow)
            /\ last_call' = Call("hook_command", "main", command_id, FALSE, "running")
       ELSE /\ last_call' = Call("hook_command", "main", command_id, FALSE, "panic")
            /\ UNCHANGED <<stack, command_by_id_borrow>>
    /\ registry_log' = <<>>
    /\ UNCHANGED <<command_by_id, host_gaccel, registered_actions, invocations, next_rc,
                   sched_vars, guard_vars, bus_vars, rest_vars>>

(* Host calls hook_command: look the command up and start its operation. *)
HighLevelHookCommand_call(command_id) ==
    /\ stack = <<>>
    /\ IF command_id \in DOMAIN command_by_id
       THEN LET operation == command_by_id[command_id].operation IN
            /\ invocations[operation.rc] < MaxInvocations
            /\ operation.body = "register" => next_rc <= MaxRegistrations
            /\ stack' = Append(stack, [command_id |-> command_id,
                                       operation |-> operation,
                                       borrow_before |-> command_by_id_borrow])
            /\ command_by_id_borrow' = BorrowWhileOperationRuns(command_by_id_borrow)
            /\ last_call' = Call("hook_command", "main", command_id, FALSE, "running")
       ELSE /\ last_call' = Call("hook_command", "main", command_id, FALSE, "not handled")
            /\ UNCHANGED <<stack, command_by_id_borrow>>
    /\ registry_log' = <<>>
    /\ UNCHANGED <<command_by_id, host_gaccel, registered_actions, invocations, next_rc,
                   sched_vars, guard_vars, bus_vars, rest_vars>>

(* Mutant: one borrow flag for all operations. *)
OperationBorrowMutFails_for_any_operation(operation) == stack # <<>>

(* borrow_mut() of the operation: the RefCell of an operation is           *)
(* exclusively borrowed while a dispatch runs that operation.              *)
OperationBorrowMutFails(operation) ==
    \E i \in 1..Len(stack) : stack[i].operation.rc = operation.rc

(* The command a running operation makes the host dispatch *)
NestedDispatchTarget(frame) ==
    IF frame.operation.body = "dispatch_same" THEN frame.command_id
    ELSE OtherCommand(frame.command_id)

(* Host calls hook_command while an operation runs, because that operation  *)
(* triggered a command.  A panic of the nested call either unwinds through   *)
(* every dispatch in progress or is caught where the host called back, and   *)
(* then the operation around it goes on.                                   *)
HighLevelHookCommand_call_from_operation ==
    /\ stack # <<>>
    /\ stack[Len(stack)].operation.body \in NestedDispatchBodies
    /\ LET command_id == NestedDispatchTarget(stack[Len(stack)])
       IN IF command_id \in DOMAIN command_by_id
          THEN LET operation == command_by_id[command_id].operation IN
               IF OperationBorrowMutFails(operation)
               THEN /\ last_call' = Call("hook_command", "main", command_id, FALSE, "panic")
                    /\ \/ /\ stack' = <<>>
                          /\ command_by_id_borrow' = stack[1].borrow_before
                       \/ UNCHANGED <<stack, command_by_id_borrow>>
               ELSE /\ invocations[operation.rc] < MaxInvocations
                    /\ stack' = Append(stack, [command_id |-> command_id,
                                               operation |-> operation,
                                               borrow_before |-> command_by_id_borrow])
                    /\ command_by_id_borrow' = BorrowWhileOperationRuns(command_by_id_borrow)
                    /\ last_call' = Call("hook_command", "main", command_id, FALSE,
                                         "running")
          ELSE /\ last_call' = Call("hook_command", "main", command_id, FALSE, "not handled")
               /\ UNCHANGED <<stack, command_by_id_borrow>>
    /\ registry_log' = <<>>
    /\ UNCHANGED <<command_by_id, host_gaccel, registered_actions, invocations, next_rc,
                   sched_vars, guard_vars, bus_vars, rest_vars>>

HeldActionsFor(command_id) == {a \in registered_actions : a.command_id = command_id}

(* The cloned operation is invoked through its own RefCell (borrow_mut,   *)
(* call_mut); the dispatch then returns true.                              *)
HookCommand_operation ==
    /\ stack # <<>>
    /\ LET frame == stack[Len(stack)]
           body == frame.operation.body
           target == OtherCommand(frame.command_id)
           panics == body # "invoke" /\ BorrowMutFails
       IN /\ invocations' = [invocations EXCEPT ![frame.operation.rc] = @ + 1]
          /\ IF panics
             THEN UNCHANGED <<command_by_id, host_gaccel, registered_actions, next_rc,
                              registry_log>>
             ELSE CASE body \in {"invoke"} \cup NestedDispatchBodies ->
                         UNCHANGED <<command_by_id, host_gaccel, registered_actions, next_rc,
                                     registry_log>>
                    [] body = "register" ->
                         RegisterActionEffect(target, Operation(next_rc, "invoke"),
                                              NotToggleable)
                    [] body = "unregister" ->
                         /\ IF HeldActionsFor(target) = {}
                            THEN UNCHANGED <<command_by_id, host_gaccel, registry_log>>
                            ELSE \E a \in HeldActionsFor(target) :
                                     unregister_command(a.command_id, a.gaccel_handle)
                         /\ UNCHANGED <<registered_actions, next_rc>>
          /\ last_call' = Call("hook_command", "main", frame.command_id, FALSE,
                               IF panics THEN "panic" ELSE "handled")
          /\ stack' = SubSeq(stack, 1, Len(stack) - 1)
          /\ command_by_id_borrow' = frame.borrow_before
    /\ UNCHANGED <<sched_vars, guard_vars, bus_vars, rest_vars>>

(* Mutant: On and Off are swapped. *)
ToggleActionResult_swapped(command_id) ==
    IF command_id \in DOMAIN command_by_id
    THEN IF command_by_id[command_id].kind.toggleable
         THEN IF is_on(command_by_id[command_id].kind) THEN "Off" ELSE "On"
         ELSE "NotRelevant"
    ELSE "NotRelevant"

ToggleActionResult(command_id) ==
    IF command_id \in DOMAIN command_by_id
    THEN IF command_by_id[command_id].kind.toggleable
         THEN IF is_on(command_by_id[command_id].kind) THEN "On" ELSE "Off"
         ELSE "NotRelevant"
    ELSE "NotRelevant"

(* Host calls toggle_action *)
HighLevelToggleAction_call(command_id) ==
    /\ stack = <<>>
    /\ last_call' = Call("toggle_action", "main", command_id, FALSE,
                         ToggleActionResult(command_id))
    /\ registry_log' = <<>>
    /\ UNCHANGED <<command_by_id, command_by_id_borrow, host_gaccel, registered_actions,
                   stack, invocations, next_rc>>
    /\ UNCHANGED <<sched_vars, guard_vars, bus_vars, rest_vars>>

----------------------------------------------------------------------------
(* ReaperGuard.  REAPER_GUARD.weak names the allocation the Weak points to  *)
(* (0 for Weak::new()); guard_strong is that allocation's strong count.     *)
(* Weak::upgrade gives Some exactly while the strong count is not zero.     *)

UpgradeIsSome == guard_strong > 0

(* impl Drop for ReaperGuard: ReaperSession::get().deactivate() *)
ReaperGuard_drop == deactivate

(* Mutant: the initializer runs on every call, whether or not a guard lives. *)
guarded_always_initializing(initializer) ==
    /\ blocked["main"] = NotBlocked
    /\ ~REAPER_GUARD.poisoned
    /\ REAPER_GUARD.weak < MaxGuards
    /\ initializer
    /\ IF last_call'.result = "panic"
       THEN /\ REAPER_GUARD' = [REAPER_GUARD EXCEPT !.poisoned = TRUE]
            /\ UNCHANGED guard_strong
       ELSE /\ REAPER_GUARD' = [REAPER_GUARD EXCEPT !.weak = @ + 1]
            /\ guard_strong' = 1

(* ReaperSession::guarded(initializer).  A panic of the initializer unwinds *)
(* through the MutexGuard and poisons the mutex; lock().unwrap() panics on  *)
(* a poisoned mutex.                                                       *)
guarded(initializer) ==
    /\ blocked["main"] = NotBlocked
    /\ IF REAPER_GUARD.poisoned
       THEN /\ last_call' = Call("guarded", "main", 0, FALSE, "panic")
            /\ UNCHANGED <<sched_vars, reg_vars, guard_vars, bus_vars, rest_vars>>
       ELSE IF UpgradeIsSome
       THEN \* return rc
            /\ guard_strong < MaxHolders
            /\ guard_strong' = guard_strong + 1
            /\ last_call' = Call("guarded", "main", REAPER_GUARD.weak, FALSE, "upgraded")
            /\ UNCHANGED <<sched_vars, reg_vars, REAPER_GUARD, bus_vars, rest_vars>>
       ELSE /\ REAPER_GUARD.weak < MaxGuards
            /\ initializer
            /\ IF last_call'.result = "panic"
               THEN /\ REAPER_GUARD' = [REAPER_GUARD EXCEPT !.poisoned = TRUE]
                    /\ UNCHANGED guard_strong
               ELSE /\ REAPER_GUARD' = [REAPER_GUARD EXCEPT !.weak = @ + 1]
                    /\ guard_strong' = 1

(* Mutant: every released handle runs ReaperGuard's drop. *)
Arc_drop_always_dropping_guard ==
    /\ guard_strong > 0
    /\ guard_strong' = guard_strong - 1
    /\ UNCHANGED REAPER_GUARD
    /\ ReaperGuard_drop

(* A holder releases its Arc<ReaperGuard>: the strong count goes down and   *)
(* the ReaperGuard is dropped when it reaches zero.                        *)
Arc_drop ==
    /\ guard_strong > 0
    /\ guard_strong' = guard_strong - 1
    /\ UNCHANGED REAPER_GUARD
    /\ IF guard_strong = 1
       THEN ReaperGuard_drop
       ELSE /\ last_call' = Call("drop", "main", REAPER_GUARD.weak, FALSE, "done")
            /\ UNCHANGED <<sched_vars, reg_vars, bus_vars, rest_vars>>

----------------------------------------------------------------------------
(* Event bus.  An EventStreamSubject is a RefCell around a LocalSubject;   *)
(* every publish is subjects.<name>.borrow_mut().next(value), so the        *)
(* exclusive borrow of the RefCell lasts for the whole fan-out.  A panic    *)
(* of a nested publish either unwinds every next() in progress, releasing   *)
(* their borrows, or is caught where the host called back into the session  *)
(* (as delegating_on_audio_buffer does with firewall), and then the publish *)
(* around it goes on.                                                      *)

(* What an observer's closure does with a value: nothing more, publish it   *)
(* to the subject it came from, or publish it to the other subject.         *)
Reactions == {"none", "next_same", "next_other"}

Observer(n, reaction) == [n |-> n, reaction |-> reaction]

OtherSubject(s) == CHOOSE o \in SubjectNames : o # s

Delivery(publish, s, n, value) ==
    [publish |-> publish, subject |-> s, observer |-> n, value |-> value]

Publishing(publish, s, value) ==
    [publish |-> publish, subject |-> s, value |-> value, at |-> 1]

(* Observers subscribed in total *)
ObserverCount == Len(subjects["action_invoked"]) + Len(subjects["track_added"])

(* self.subjects.<name>.borrow().clone() followed by subscribe(closure) *)
subscribe(s, reaction) ==
    /\ publishing = <<>>
    /\ ObserverCount < MaxObservers
    /\ IF subjects_borrow[s] < 0
       THEN /\ last_call' = Call("subscribe", "main", 0, FALSE, "panic")
            /\ UNCHANGED subjects
       ELSE /\ subjects' = [subjects EXCEPT
                               ![s] = Append(@, Observer(Len(@) + 1, reaction))]
            /\ last_call' = Call("subscribe", "main", Len(subjects[s]) + 1, FALSE, "done")
    /\ UNCHANGED <<subjects_borrow, publishing, delivered, next_publish>>
    /\ UNCHANGED <<sched_vars, reg_vars, guard_vars, rest_vars>>

(* Mutant: the exclusive borrow is always granted. *)
SubjectBorrowMutFails_never(s) == FALSE

(* Mutant: any publish in progress makes the borrow fail. *)
SubjectBorrowMutFails_for_any_subject(s) == \E o \in SubjectNames : subjects_borrow[o] # 0

(* RefCell::borrow_mut panics unless the cell is free. *)
SubjectBorrowMutFails(s) == subjects_borrow[s] # 0

(* Mutant: observers are called last subscribed first. *)
ObserverAt_last_first(s, at) == subjects[s][Len(subjects[s]) + 1 - at]

(* LocalSubject::next calls the observers in the order they subscribed. *)
ObserverAt(s, at) == subjects[s][at]

(* subjects.<s>.borrow_mut().next(value) *)
EventStreamSubject_next(s, value, op) ==
    IF SubjectBorrowMutFails(s)
    THEN /\ publishing' = <<>>
         /\ subjects_borrow' = [o \in SubjectNames |-> 0]
         /\ last_call' = Call(op, "main", next_publish, FALSE, "panic")
         /\ UNCHANGED next_publish
    ELSE /\ publishing' = Append(publishing, Publishing(next_publish, s, value))
         /\ subjects_borrow' = [subjects_borrow EXCEPT ![s] = -1]
         /\ last_call' = Call(op, "main", next_publish, FALSE, "running")
         /\ next_publish' = next_publish + 1

(* Mutant: only the ids of this session's registry are published. *)
HighLevelHookPostCommand_call_for_own_commands(command_id) ==
    /\ "hook_post_command" \in Range(host_registered)
    /\ publishing = <<>>
    /\ next_publish <= MaxPublishes
    /\ IF command_id \in DOMAIN command_by_id
       THEN EventStreamSubject_next("action_invoked", command_id, "hook_post_command")
       ELSE /\ last_call' = Call("hook_post_command", "main", next_publish, FALSE, "done")
            /\ UNCHANGED <<publishing, subjects_borrow, next_publish>>
    /\ UNCHANGED <<subjects, delivered>>
    /\ UNCHANGED <<sched_vars, reg_vars, guard_vars, rest_vars>>

(* Host calls hook_post_command after an action of the main section ran. *)
HighLevelHookPostCommand_call(command_id) ==
    /\ "hook_post_command" \in Range(host_registered)
    /\ publishing = <<>>
    /\ next_publish <= MaxPublishes
    /\ EventStreamSubject_next("action_invoked", command_id, "hook_post_command")
    /\ UNCHANGED <<subjects, delivered>>
    /\ UNCHANGED <<sched_vars, reg_vars, guard_vars, rest_vars>>

(* The control surface publishes a notification of the host. *)
HelperControlSurface_next(s, value) ==
    /\ "csurf_inst" \in Range(host_registered)
    /\ publishing = <<>>
    /\ next_publish <= MaxPublishes
    /\ EventStreamSubject_next(s, value, "control_surface")
    /\ UNCHANGED <<subjects, delivered>>
    /\ UNCHANGED <<sched_vars, reg_vars, guard_vars, rest_vars>>

(* The innermost next() hands its value to the next observer, whose closure *)
(* runs.                                                                   *)
Observer_call ==
    /\ publishing # <<>>
    /\ LET f == publishing[Len(publishing)]
           advanced == [publishing EXCEPT ![Len(publishing)].at = f.at + 1]
       IN /\ f.at <= Len(subjects[f.subject])
          /\ LET o == ObserverAt(f.subject, f.at)
                 target == IF o.reaction = "next_same" THEN f.subject
                           ELSE OtherSubject(f.subject)
             IN /\ delivered' = Append(delivered,
                                       Delivery(f.publish, f.subject, o.n, f.value))
                /\ IF o.reaction = "none"
                   THEN /\ publishing' = advanced
                        /\ last_call' = Call("observer", "main", f.publish, FALSE, "done")
                        /\ UNCHANGED <<subjects_borrow, next_publish>>
                   ELSE IF SubjectBorrowMutFails(target)
                   THEN /\ \/ /\ publishing' = <<>>
                              /\ subjects_borrow' = [s \in SubjectNames |-> 0]
                           \/ /\ publishing' = advanced
                              /\ UNCHANGED subjects_borrow
                        /\ last_call' = Call("next", "main", next_publish, FALSE, "panic")
                        /\ UNCHANGED next_publish
                   ELSE /\ publishing' = Append(advanced,
                                                Publishing(next_publish, target, f.value))
                        /\ subjects_borrow' = [subjects_borrow EXCEPT ![target] = -1]
                        /\ last_call' = Call("next", "main", next_publish, FALSE, "running")
                        /\ next_publish' = next_publish + 1
    /\ UNCHANGED subjects
    /\ UNCHANGED <<sched_vars, reg_vars, guard_vars, rest_vars>>

(* The innermost next() has called every observer: it returns and the       *)
(* RefMut is dropped.                                                      *)
EventStreamSubject_next_returns ==
    /\ publishing # <<>>
    /\ LET f == publishing[Len(publishing)]
       IN /\ f.at > Len(subjects[f.subject])
          /\ publishing' = SubSeq(publishing, 1, Len(publishing) - 1)
          /\ subjects_borrow' = [subjects_borrow EXCEPT ![f.subject] = 0]
          /\ last_call' = Call("next", "main", f.publish, FALSE, "done")
    /\ UNCHANGED <<subjects, delivered, next_publish>>
    /\ UNCHANGED <<sched_vars, reg_vars, guard_vars, rest_vars>>

----------------------------------------------------------------------------
(* Undo blocks *)

(* undoable_action_is_running: the value of the flag *)
undoable_action_is_running ==
    /\ blocked["main"] = NotBlocked
    /\ last_call' = Call("undoable_action_is_running", "main", 0, FALSE,
                         IF undo_block_is_active THEN "true" ELSE "false")
    /\ UNCHANGED <<sched_vars, reg_vars, guard_vars, bus_vars, rest_vars>>

(* Mutant: a block is begun whether or not one is active. *)
enter_undo_block_internal_nesting ==
    /\ blocked["main"] = NotBlocked
    /\ Len(host_undo) < 2 * MaxUndoBlocks
    /\ undo_block_is_active' = TRUE
    /\ host_undo' = Append(host_undo, "undo_begin_block_2")
    /\ last_call' = Call("enter_undo_block", "main", 0, FALSE, "Some")
    /\ UNCHANGED <<sched_vars, reg_vars, guard_vars, bus_vars, drain_vars, midi_vars,
                   watch_vars, setup_vars, conv_vars>>

(* enter_undo_block_internal: no new block while one is active *)
enter_undo_block_internal ==
    /\ blocked["main"] = NotBlocked
    /\ IF undo_block_is_active
       THEN /\ last_call' = Call("enter_undo_block", "main", 0, FALSE, "None")
            /\ UNCHANGED <<undo_block_is_active, host_undo>>
       ELSE /\ Len(host_undo) < 2 * MaxUndoBlocks
            /\ undo_block_is_active' = TRUE
            /\ host_undo' = Append(host_undo, "undo_begin_block_2")
            /\ last_call' = Call("enter_undo_block", "main", 0, FALSE, "Some")
    /\ UNCHANGED <<sched_vars, reg_vars, guard_vars, bus_vars, drain_vars, midi_vars,
                   watch_vars, setup_vars, conv_vars>>

(* leave_undo_block_internal: nothing to end unless a block is active *)
leave_undo_block_internal ==
    /\ blocked["main"] = NotBlocked
    /\ IF ~undo_block_is_active
       THEN /\ last_call' = Call("leave_undo_block", "main", 0, FALSE, "returned")
            /\ UNCHANGED <<undo_block_is_active, host_undo>>
       ELSE /\ host_undo' = Append(host_undo, "undo_end_block_2")
            /\ undo_block_is_active' = FALSE
            /\ last_call' = Call("leave_undo_block", "main", 0, FALSE, "done")
    /\ UNCHANGED <<sched_vars, reg_vars, guard_vars, bus_vars, drain_vars, midi_vars,
                   watch_vars, setup_vars, conv_vars>>

----------------------------------------------------------------------------
(* Entry points of the main thread, called from any thread.  Each of them   *)
(* begins with require_main_thread(); what follows that statement is the    *)
(* action of the same name above.                                          *)

(* Mutant: the assertion is left out. *)
require_main_thread_unchecked(t) == TRUE

(* assert!(context.is_in_main_thread(),                                    *)
(*         "this function must be called in the main thread")              *)
require_main_thread(t) == t = "main"

MainThreadOnly(t, op, rest) ==
    IF require_main_thread(t)
    THEN rest
    ELSE /\ blocked[t] = NotBlocked
         /\ last_call' = Call(op, t, 0, FALSE, "panic")
         /\ UNCHANGED <<sched_vars, reg_vars, guard_vars, bus_vars, rest_vars>>

(* ReaperSession::get(): INSTANCE.as_ref().expect(..), whether it finds a   *)
(* session                                                                 *)
ReaperSession_get == static_INSTANCE # 0

(* Mutant: the closure is run by every call. *)
CallOnceRuns_always(completed) == TRUE

(* Once::call_once runs its closure unless a call_once has completed. *)
CallOnceRuns(completed) == ~completed

(* ReaperBuilder::setup: INIT_INSTANCE.call_once creates the session and    *)
(* stores it in the static; once the instance exists it does not run its       *)
(* closure again.                                                          *)
ReaperBuilder_setup ==
    /\ blocked["main"] = NotBlocked
    /\ last_call' = Call("setup", "main", 0, FALSE, "done")
    /\ IF CallOnceRuns(INIT_INSTANCE)
       THEN /\ command_by_id' = <<>>
            /\ command_by_id_borrow' = 0
            /\ subjects' = [s \in SubjectNames |-> <<>>]
            /\ subjects_borrow' = [s \in SubjectNames |-> 0]
            /\ undo_block_is_active' = FALSE
            /\ main_queue' = <<>>
            /\ audio_queue' = <<>>
            /\ active_data' = <<>>
            /\ static_INSTANCE' = static_INSTANCE + 1
            /\ INIT_INSTANCE' = TRUE
            /\ UNCHANGED <<host_registered, host_calls, logger, blocked, now, next_task,
                           executed, executed_early, requested, discarded_main,
                           discarded_audio, overdue_seen>>
            /\ UNCHANGED <<host_gaccel, registered_actions, stack, invocations, next_rc,
                           registry_log>>
            /\ UNCHANGED <<guard_vars, publishing, delivered, next_publish, drain_vars,
                           midi_vars, host_undo, watch_vars, conv_vars>>
       ELSE UNCHANGED <<sched_vars, reg_vars, guard_vars, bus_vars, rest_vars>>

(* ReaperSession::medium / medium_mut: the Ref or RefMut of self.medium is  *)
(* handed to the caller.                                                   *)
medium ==
    /\ blocked["main"] = NotBlocked
    /\ last_call' = Call("medium", "main", 0, FALSE, "done")
    /\ UNCHANGED <<sched_vars, reg_vars, guard_vars, bus_vars, rest_vars>>

ReaperBuilder_setup_on(t) == MainThreadOnly(t, "setup", ReaperBuilder_setup)

medium_on(t) == MainThreadOnly(t, "medium", medium)

activate_on(t) == MainThreadOnly(t, "activate", activate /\ UNCHANGED guard_vars)

deactivate_on(t) == MainThreadOnly(t, "deactivate", deactivate /\ UNCHANGED guard_vars)

register_action_on(t, command_id, body, toggle) ==
    MainThreadOnly(t, "register_action", register_action(command_id, body, toggle))

RegisteredAction_unregister_on(t, action) ==
    MainThreadOnly(t, "unregister", RegisteredAction_unregister(action))

subscribe_on(t, s, reaction) == MainThreadOnly(t, "subscribe", subscribe(s, reaction))

enter_undo_block_internal_on(t) ==
    MainThreadOnly(t, "enter_undo_block", enter_undo_block_internal)

leave_undo_block_internal_on(t) ==
    MainThreadOnly(t, "leave_undo_block", leave_undo_block_internal)

----------------------------------------------------------------------------

(* Channels, life cycle and audio hook.  Every task is an "asap" task and   *)
(* the clock stands still.                                                 *)
Next ==
    \/ \E t \in Threads : execute_asap_in_main_thread(t)
    \/ \E t \in Threads : execute_asap_in_audio_thread(t)
    \/ \E t \in Threads : send_completes(t)
    \/ activate /\ UNCHANGED guard_vars
    \/ deactivate /\ UNCHANGED guard_vars
    \/ \E is_post \in BOOLEAN : HighOnAudioBuffer_call(is_post)
    \/ HelperControlSurface_run

Spec == Init /\ [][Next]_vars

(* The main-thread channel with deadlines and a running clock.  A task is  *)
(* submitted without deadline, with a waiting time of zero or with the       *)
(* longest waiting time.                                                   *)
NextDeadline ==
    \/ \E t \in Threads, w \in {0, MaxWait} : execute_in_main_thread(t, w)
    \/ \E t \in Threads : execute_asap_in_main_thread(t)
    \/ \E t \in Threads : send_completes(t)
    \/ activate /\ UNCHANGED guard_vars
    \/ deactivate /\ UNCHANGED guard_vars
    \/ HelperControlSurface_run
    \/ Tick

SpecDeadline == Init /\ [][NextDeadline]_vars

(* The session activated and deactivated only through ReaperGuard. *)
NextGuard ==
    \/ \E t \in Threads : execute_asap_in_main_thread(t)
    \/ \E t \in Threads : execute_asap_in_audio_thread(t)
    \/ \E t \in Threads : send_completes(t)
    \/ guarded(activate)
    \/ Arc_drop
    \/ \E is_post \in BOOLEAN : HighOnAudioBuffer_call(is_post)
    \/ HelperControlSurface_run

SpecGuard == Init /\ [][NextGuard]_vars

(* The event bus of a session that is activated once: the host's           *)
(* post-command callback (for an id of the registry's range and for a       *)
(* foreign id) and the control surface publish, observers may publish in    *)
(* turn.                                                                   *)
NextBus ==
    \/ activate /\ active_data = <<>> /\ UNCHANGED guard_vars
    \/ \E s \in SubjectNames, reaction \in Reactions : subscribe(s, reaction)
    \/ \E command_id \in {MaxCommands, ForeignCommandId} :
           HighLevelHookPostCommand_call(command_id)
    \/ \E s \in SubjectNames \ {"action_invoked"} :
           HelperControlSurface_next(s, next_publish)
    \/ Observer_call
    \/ EventStreamSubject_next_returns

SpecBus == Init /\ [][NextBus]_vars

(* The command registry and the host's dispatch and toggle callbacks. *)
NextRegistry ==
    \/ \E command_id \in CommandIds, body \in OperationBodies, toggle \in BOOLEAN :
           register_action(command_id, body, toggle)
    \/ \E action \in registered_actions : RegisteredAction_unregister(action)
    \/ \E command_id \in DispatchIds : HighLevelHookCommand_call(command_id)
    \/ HookCommand_operation
    \/ \E command_id \in DispatchIds : HighLevelToggleAction_call(command_id)

SpecRegistry == Init /\ [][NextRegistry]_vars


(* The drain cycle of a session that is activated once, with closures that  *)
(* return and closures that panic, with and without a deadline.             *)
NextDrain ==
    \/ activate /\ active_data = <<>> /\ UNCHANGED guard_vars
    \/ \E op \in {"plain", "panics"} : execute_asap_in_main_thread_with("main", op)
    \/ execute_in_main_thread("main", MaxWait)
    \/ HelperControlSurface_run
    \/ Tick

SpecDrain == Init /\ [][NextDrain]_vars


(* The session's main-thread entry points, called from the main thread and *)
(* from the audio thread.                                                  *)
NextSession ==
    \/ \E t \in Threads : ReaperBuilder_setup_on(t)
    \/ \E t \in Threads : medium_on(t)
    \/ \E t \in Threads : activate_on(t) /\ active_data = <<>>
    \/ deactivate_on("audio")
    \/ \E t \in Threads, command_id \in CommandIds :
           register_action_on(t, command_id, "invoke", FALSE)
    \/ \E action \in registered_actions : RegisteredAction_unregister_on("audio", action)
    \/ \E t \in Threads : subscribe_on(t, "action_invoked", "none")
    \/ \E t \in Threads : enter_undo_block_internal_on(t)
    \/ leave_undo_block_internal_on("audio")

SpecSession == Init /\ [][NextSession]_vars

(* The command registry next to the life cycle and the scheduling of       *)
(* main-thread tasks: actions that only count their invocations, the host   *)
(* dispatches and queries the last command id and dispatches a foreign      *)
(* one, a task is submitted when the queue is empty.                       *)
NextFrame ==
    \/ \E command_id \in CommandIds : register_action(command_id, "invoke", FALSE)
    \/ \E action \in registered_actions : RegisteredAction_unregister(action)
    \/ \E command_id \in {MaxCommands, ForeignCommandId} :
           HighLevelHookCommand_call(command_id)
    \/ HookCommand_operation
    \/ HighLevelToggleAction_call(MaxCommands)
    \/ activate /\ UNCHANGED guard_vars
    \/ deactivate /\ UNCHANGED guard_vars
    \/ execute_asap_in_main_thread("main") /\ main_queue = <<>>

SpecFrame == Init /\ [][NextFrame]_vars


(* The audio hook of a session that is activated once: closures that return *)
(* and closures that subscribe to midi_message_received() are queued, the    *)
(* host fills the read buffers of its first and its last MIDI input device   *)
(* and calls the hook in both phases.                                      *)
NextMidi ==
    \/ activate /\ active_data = <<>> /\ UNCHANGED guard_vars
    \/ \E op \in {"plain", "subscribes"} : execute_asap_in_audio_thread_with("main", op)
    \/ \E device \in {0, MaxMidiInputs - 1}, buffer \in MidiBuffers :
           MidiInput_receive(device, buffer)
    \/ \E is_post \in BOOLEAN : HighOnAudioBuffer_call(is_post)

SpecMidi == Init /\ [][NextMidi]_vars


(* The control surface of a session that is activated once, while the host  *)
(* changes watched properties and tasks are queued.                         *)
NextWatch ==
    \/ activate /\ active_data = <<>> /\ UNCHANGED guard_vars
    \/ \E property \in WatchedPropertySet, value \in PropertyValues :
           Host_changes(property, value)
    \/ execute_asap_in_main_thread("main")
    \/ HelperControlSurface_run

SpecWatch == Init /\ [][NextWatch]_vars



(* The audio queue of a session that is activated once and stays active:    *)
(* both threads submit audio-thread tasks, the audio thread submits          *)
(* main-thread tasks as well, and the host calls the audio hook for every    *)
(* audio block as long as the hook is registered and the audio thread is     *)
(* free to run it.                                                         *)
NextAudioLive ==
    \/ activate /\ active_data = <<>> /\ UNCHANGED guard_vars
    \/ \E t \in Threads : execute_asap_in_audio_thread(t)
    \/ execute_asap_in_main_thread("audio")
    \/ \E t \in Threads : send_completes(t)
    \/ \E is_post \in BOOLEAN : HighOnAudioBuffer_call(is_post)
    \/ HelperControlSurface_run

SpecAudioLive ==
    Init /\ [][NextAudioLive]_vars /\ WF_vars(HighOnAudioBuffer_call(FALSE))



(* What the audio hook pushes to the MIDI subject in a session that is      *)
(* activated once: a closure that subscribes to midi_message_received() is   *)
(* the first task submitted, the host fills the read buffers                 *)
(* of its first and its last MIDI input device with the messages of a        *)
(* longer block and calls the hook in the pre phase.                        *)
NextMidiPush ==
    \/ activate /\ active_data = <<>> /\ UNCHANGED guard_vars
    \/ execute_asap_in_audio_thread_with("main", "subscribes") /\ next_task = 1
    \/ \E device \in {0, MaxMidiInputs - 1}, buffer \in MidiBlocks :
           MidiInput_receive(device, buffer)
    \/ HighOnAudioBuffer_call(FALSE)

SpecMidiPush == Init /\ [][NextMidiPush]_vars



(* The post-command callback next to the command registry, in a session     *)
(* that is activated once: actions are registered, observers subscribe to    *)
(* action_invoked, and the host reports that the action with the last        *)
(* command id or a foreign action has run.                                  *)
NextPost ==
    \/ activate /\ active_data = <<>> /\ UNCHANGED guard_vars
    \/ \E command_id \in CommandIds : register_action(command_id, "invoke", FALSE)
    \/ subscribe("action_invoked", "none")
    \/ \E command_id \in {MaxCommands, ForeignCommandId} :
           HighLevelHookPostCommand_call(command_id)
    \/ Observer_call
    \/ EventStreamSubject_next_returns

SpecPost == Init /\ [][NextPost]_vars



(* Undo blocks on the main thread, entered and left while the session is    *)
(* activated and deactivated and a main-thread task is submitted and run.    *)
NextUndo ==
    \/ enter_undo_block_internal
    \/ leave_undo_block_internal
    \/ undoable_action_is_running
    \/ activate /\ UNCHANGED guard_vars
    \/ deactivate /\ UNCHANGED guard_vars
    \/ execute_asap_in_main_thread("main") /\ main_queue = <<>>
    \/ HelperControlSurface_run

SpecUndo == Init /\ [][NextUndo]_vars



(* The process from Reaper::load on: setup is called any number of times    *)
(* from either thread; once a session exists, it is activated, actions are   *)
(* registered, observers subscribe and main-thread tasks are submitted.      *)
NextSetup ==
    \/ \E t \in Threads : ReaperBuilder_setup_on(t)
    \/ ReaperSession_get /\ activate /\ active_data = <<>> /\ UNCHANGED guard_vars
    \/ ReaperSession_get /\ \E command_id \in CommandIds :
           register_action(command_id, "invoke", FALSE)
    \/ ReaperSession_get /\ subscribe("action_invoked", "none")
    \/ ReaperSession_get /\ execute_asap_in_main_thread("main")

SpecSetup == InitLoaded /\ [][NextSetup]_vars



(* Dispatches from within running operations: actions whose operation only  *)
(* counts its invocation or makes the host dispatch its own or the other     *)
(* command are registered, the host dispatches the registered ids, and a      *)
(* running operation triggers its nested dispatch.                          *)
NextNested ==
    \/ \E command_id \in CommandIds, body \in {"invoke"} \cup NestedDispatchBodies :
           register_action(command_id, body, FALSE)
    \/ \E command_id \in CommandIds : HighLevelHookCommand_call(command_id)
    \/ HighLevelHookCommand_call_from_operation
    \/ HookCommand_operation

SpecNested == Init /\ [][NextNested]_vars



----------------------------------------------------------------------------
(* AutomationMode *)

AutomationModes == {"TrimRead", "Read", "Touch", "Write", "Latch", "LatchPreview"}

Ok(mode) == [ok |-> TRUE, mode |-> mode]

(* Err(ConversionFromRawFailed) *)
ConversionFromRawFailed == [ok |-> FALSE, mode |-> "ConversionFromRawFailed"]

(* Range of the i32 the conversions take and return *)
I32Min == (0 - 2147483647) - 1
I32Max == 2147483647

(* Integers handed to try_from_raw: the ones around the raw values of the   *)
(* modes and the two ends of i32.                                          *)
RawValues == ((0 - MaxRaw)..MaxRaw) \cup {I32Min, I32Max}

(* Mutant: the raw values of Touch and Write are exchanged. *)
try_from_raw_exchanging_touch_and_write(v) ==
    CASE v = 0 -> Ok("TrimRead")
      [] v = 1 -> Ok("Read")
      [] v = 2 -> Ok("Write")
      [] v = 3 -> Ok("Touch")
      [] v = 4 -> Ok("Latch")
      [] v = 5 -> Ok("LatchPreview")
      [] OTHER -> ConversionFromRawFailed

(* AutomationMode::try_from_raw(v) *)
try_from_raw(v) ==
    CASE v = 0 -> Ok("TrimRead")
      [] v = 1 -> Ok("Read")
      [] v = 2 -> Ok("Touch")
      [] v = 3 -> Ok("Write")
      [] v = 4 -> Ok("Latch")
      [] v = 5 -> Ok("LatchPreview")
      [] OTHER -> ConversionFromRawFailed

(* AutomationMode::to_raw(&self) *)
to_raw(mode) ==
    CASE mode = "TrimRead" -> 0
      [] mode = "Read" -> 1
      [] mode = "Touch" -> 2
      [] mode = "Write" -> 3
      [] mode = "Latch" -> 4
      [] mode = "LatchPreview" -> 5

(* The caller converts the integer it holds *)
AutomationMode_try_from_raw ==
    /\ automation_mode' = try_from_raw(automation_raw)
    /\ last_call' = Call("try_from_raw", "main", automation_raw, FALSE,
                         IF automation_mode'.ok THEN "ok" ELSE "error")
    /\ UNCHANGED <<automation_raw, sched_vars, reg_vars, guard_vars, bus_vars, drain_vars,
                   midi_vars, undo_vars, watch_vars, setup_vars>>

(* The caller converts the mode it holds *)
AutomationMode_to_raw ==
    /\ automation_mode.ok
    /\ automation_raw' = to_raw(automation_mode.mode)
    /\ last_call' = Call("to_raw", "main", automation_raw', FALSE, "done")
    /\ UNCHANGED <<automation_mode, sched_vars, reg_vars, guard_vars, bus_vars, drain_vars,
                   midi_vars, undo_vars, watch_vars, setup_vars>>

(* A caller that holds any integer of RawValues and no mode or any mode *)
InitConversion ==
    /\ NothingHappened
    /\ last_call = Call("setup", "main", 0, FALSE, "done")
    /\ INIT_INSTANCE = TRUE
    /\ static_INSTANCE = 1
    /\ automation_raw \in RawValues
    /\ automation_mode \in {NotConverted} \cup {Ok(mode) : mode \in AutomationModes}

NextConversion ==
    \/ AutomationMode_try_from_raw
    \/ AutomationMode_to_raw

SpecConversion == InitConversion /\ [][NextConversion]_vars

----------------------------------------------------------------------------
(* Properties *)

(* C1: a scheduling call made while the destination queue is full returns a *)
(* submission failure: the caller is not parked and the call ends in Err.   *)
C1_FullQueueSubmissionFails ==
    /\ \A t \in Threads : blocked[t] = NotBlocked
    /\ last_call.was_full => last_call.result = "Err"

(* C2: the audio thread never waits for the main-thread consumer: it is     *)
(* never parked in a send to the main-thread queue.                        *)
C2_AudioThreadNeverWaits == blocked["audio"].queue # "main"

(* C3: a pre-phase audio-hook invocation with a non-empty audio queue runs  *)
(* exactly the oldest task and leaves all others queued; with an empty      *)
(* queue it runs nothing.                                                  *)
C3_PrePhaseRunsExactlyOne ==
    [][HighOnAudioBuffer_call(FALSE) =>
          IF audio_queue # <<>>
          THEN /\ audio_queue' = Tail(audio_queue)
               /\ executed' = Append(executed, Executed(Head(audio_queue), "audio_hook"))
          ELSE /\ audio_queue' = audio_queue
               /\ executed' = executed]_vars

C3_Witness ==
    /\ last_call.op = "on_audio_buffer_pre"
    /\ audio_queue # <<>>
    /\ executed # <<>>
    /\ executed[Len(executed)].by = "audio_hook"

(* C4 as stated: a task with a deadline never runs in a drain cycle earlier *)
(* than the deadline and always runs in the first drain cycle at or after   *)
(* it.                                                                     *)
C4_DeadlineAlwaysMet ==
    \A r \in requested :
        r.waited => (r.id \notin executed_early /\ r.id \notin overdue_seen)

(* C4 amended: a task accepted with a deadline never runs in a drain cycle  *)
(* earlier than the deadline, and it runs in the first drain cycle at or    *)
(* after the deadline unless an activate() has discarded it before.        *)
C4_DeadlineMetUnlessDiscarded ==
    /\ executed_early = {}
    /\ overdue_seen \subseteq discarded_main

C4_Witness ==
    /\ last_call.op = "run"
    /\ \E r \in requested :
          /\ r.waited
          /\ r.not_before <= now
          /\ r.id \in ExecutedIds(executed)
    /\ \E r \in requested : r.waited /\ now < r.not_before /\ r.id \in QueueIds(main_queue)

(* C5: no task that was queued when activate() ran is executed or queued    *)
(* afterwards, and the warnings written per queue add up to exactly the     *)
(* number of tasks discarded from it, with no warning for a count of zero.  *)
WarnedCount(msg) ==
    SeqSum([i \in 1..Len(logger) |->
               IF logger[i].msg = msg THEN logger[i].task_count ELSE 0])

C5_ReactivationDiscards ==
    /\ (discarded_main \cup discarded_audio) \cap ExecutedIds(executed) = {}
    /\ discarded_main \cap QueueIds(main_queue) = {}
    /\ discarded_audio \cap Range(audio_queue) = {}
    /\ WarnedCount("Discarded main thread tasks on reactivation") = Cardinality(discarded_main)
    /\ WarnedCount("Discarded audio thread tasks on reactivation") = Cardinality(discarded_audio)
    /\ \A i \in 1..Len(logger) : logger[i].task_count > 0

C5_Witness ==
    /\ last_call.op = "activate"
    /\ last_call.result = "done"
    /\ executed # <<>>
    /\ discarded_main # {}
    /\ discarded_audio # {}

(* C6 as stated: right after deactivate() returns both queues are empty.    *)
C6_QueuesEmptyAfterDeactivate ==
    (last_call.op = "deactivate" /\ last_call.result = "done")
        => (main_queue = <<>> /\ audio_queue = <<>>)

(* C6 amended: deactivate() leaves both queues as they are and executes     *)
(* nothing; the queued tasks are drained, unexecuted, by the next           *)
(* activate(), after which both queues are empty.                          *)
C6_DeactivateKeepsQueues ==
    /\ [][deactivate => UNCHANGED <<main_queue, audio_queue, executed, logger,
                                    discarded_main, discarded_audio>>]_vars
    /\ []((last_call.op = "activate" /\ last_call.result = "done")
            => (main_queue = <<>> /\ audio_queue = <<>>))

C6_Witness ==
    /\ last_call.op = "deactivate"
    /\ last_call.result = "done"
    /\ main_queue # <<>>
    /\ audio_queue # <<>>

(* C7: while a command is in the registry every dispatch for its id invokes *)
(* its operation exactly once and returns handled; once unregister has      *)
(* returned the id has no entry, and then a dispatch returns not handled     *)
(* without invoking anything and a toggle query returns not-relevant.       *)
C7_RegisterDispatchUnregister ==
    [][/\ \A id \in DispatchIds :
             HighLevelHookCommand_call(id) =>
                /\ invocations' = invocations
                /\ IF id \in DOMAIN command_by_id
                   THEN /\ Len(stack') = 1
                        /\ stack'[1].operation = command_by_id[id].operation
                   ELSE /\ stack' = <<>>
                        /\ last_call'.result = "not handled"
       /\ HookCommand_operation =>
             /\ invocations' =
                   [invocations EXCEPT ![stack[Len(stack)].operation.rc] = @ + 1]
             /\ stack' = <<>>
             /\ last_call'.result = "handled"
       /\ \A a \in registered_actions :
             RegisteredAction_unregister(a) => a.command_id \notin DOMAIN command_by_id'
       /\ \A id \in DispatchIds :
             (HighLevelToggleAction_call(id) /\ id \notin DOMAIN command_by_id)
                => last_call'.result = "NotRelevant"]_vars

C7_Witness ==
    /\ last_call.op = "hook_command"
    /\ last_call.result = "not handled"
    /\ \E a \in registered_actions :
          /\ a.command_id = last_call.id
          /\ a \notin host_gaccel
          /\ invocations[a.gaccel_handle] = 1

(* C8: a toggle query answers On / Off by the predicate's value at the time *)
(* of the query for a toggleable command, and NotRelevant for a             *)
(* non-toggleable command or an id without a command.                      *)
C8_ToggleStateAtQueryTime ==
    last_call.op = "toggle_action" =>
        IF last_call.id \in DOMAIN command_by_id
              /\ command_by_id[last_call.id].kind.toggleable
        THEN last_call.result =
                IF invocations[command_by_id[last_call.id].kind.mock] % 2 = 1
                THEN "On" ELSE "Off"
        ELSE last_call.result = "NotRelevant"

C8_Witness ==
    /\ last_call.op = "toggle_action"
    /\ last_call.result = "On"
    /\ last_call.id \in DOMAIN command_by_id
    /\ invocations[command_by_id[last_call.id].kind.mock] = 1

C10_ActivateWhileActiveChangesNothing ==
    [][(activate /\ active_data # <<>>) =>
          /\ last_call'.result = "panic"
          /\ UNCHANGED <<active_data, host_registered, host_calls, main_queue,
                         audio_queue, logger, discarded_main, discarded_audio>>]_vars

C10_Witness ==
    /\ last_call.op = "activate"
    /\ last_call.result = "panic"
    /\ active_data # <<>>
    /\ main_queue # <<>>
    /\ audio_queue # <<>>

(* C11: deactivate() on a session that is not active panics, issues no host *)
(* call at all and leaves the session inactive.                            *)
C11_DeactivateWhileInactiveChangesNothing ==
    [][(deactivate /\ active_data = <<>>) =>
          /\ last_call' = Call("deactivate", "main", 0, FALSE, "panic")
          /\ active_data' = <<>>
          /\ UNCHANGED <<host_registered, host_calls>>]_vars

C11_Witness ==
    /\ last_call.op = "deactivate"
    /\ last_call.result = "panic"
    /\ active_data = <<>>
    /\ host_registered = <<>>
    /\ host_calls # <<>>

(* C12: activate() registers hook command, toggle action, hook post         *)
(* command, control surface, audio hook, in this order; deactivate()        *)
(* removes them in exactly the reverse order and clears the handles only    *)
(* after the last removal.                                                 *)
C12_ReverseOrderUnregistration ==
    [][/\ (activate /\ active_data = <<>>) =>
             host_calls' = << <<"add", "hook_command">>, <<"add", "toggle_action">>,
                              <<"add", "hook_post_command">>, <<"add", "csurf_inst">>,
                              <<"add", "audio_hook">>, <<"store", "active_data">> >>
       /\ (deactivate /\ active_data # <<>>) =>
             /\ host_calls' = << <<"remove", "audio_hook">>, <<"remove", "csurf_inst">>,
                                 <<"remove", "hook_post_command">>,
                                 <<"remove", "toggle_action">>,
                                 <<"remove", "hook_command">>,
                                 <<"clear", "active_data">> >>
             /\ Len(host_calls) = Len(host_calls')
             /\ \A i \in 1..(Len(host_calls) - 1) :
                   /\ host_calls[i][1] = "add"
                   /\ host_calls'[Len(host_calls) - i] = <<"remove", host_calls[i][2]>>
             /\ host_registered' = <<>>
             /\ active_data' = <<>>]_vars

C12_Witness ==
    /\ last_call.op = "deactivate"
    /\ last_call.result = "done"
    /\ active_data = <<>>
    /\ host_calls # <<>>
    /\ host_calls[1] = <<"remove", "audio_hook">>
    /\ host_calls[Len(host_calls)] = <<"clear", "active_data">>

(* C13: guarded() runs the initializer exactly when no guard is held, and   *)
(* then the session was inactive and becomes active; while a guard is held  *)
(* it hands out the same guard and touches nothing else; no call panics, so *)
(* the session is never activated twice in a row.                          *)
C13_GuardedInitializesOnlyWithoutGuard ==
    /\ [][guarded(activate) =>
             IF guard_strong > 0
             THEN /\ guard_strong' = guard_strong + 1
                  /\ last_call' = Call("guarded", "main", REAPER_GUARD.weak, FALSE,
                                       "upgraded")
                  /\ UNCHANGED <<REAPER_GUARD, active_data, host_registered, host_calls,
                                 main_queue, audio_queue, logger>>
             ELSE /\ active_data = <<>>
                  /\ active_data' # <<>>
                  /\ last_call' = Call("activate", "main", 0, FALSE, "done")
                  /\ guard_strong' = 1
                  /\ REAPER_GUARD'.weak = REAPER_GUARD.weak + 1]_vars
    /\ [](last_call.result # "panic")

C13_Witness ==
    /\ last_call.op = "guarded"
    /\ last_call.result = "upgraded"
    /\ last_call.id = REAPER_GUARD.weak
    /\ guard_strong > 1
    /\ active_data # <<>>

(* C14: releasing a guard handle deactivates the session exactly when it is *)
(* the last handle and otherwise leaves the session active; the session is  *)
(* active exactly while a handle is held; a guarded() after the last        *)
(* release activates it again.                                             *)
C14_DeactivatedAtLastRelease ==
    /\ [][Arc_drop =>
             IF guard_strong = 1
             THEN /\ active_data # <<>>
                  /\ active_data' = <<>>
                  /\ host_registered' = <<>>
                  /\ last_call' = Call("deactivate", "main", 0, FALSE, "done")
             ELSE /\ active_data # <<>>
                  /\ UNCHANGED <<active_data, host_registered, host_calls>>]_vars
    /\ [][(guarded(activate) /\ guard_strong = 0 /\ REAPER_GUARD.weak > 0) =>
             /\ active_data' # <<>>
             /\ last_call'.result = "done"]_vars
    /\ []((guard_strong > 0) <=> (active_data # <<>>))

C14_Witness ==
    /\ REAPER_GUARD.weak > 1
    /\ guard_strong = 1
    /\ active_data # <<>>
    /\ last_call.op = "activate"
    /\ last_call.result = "done"

(* Values handed to observers by one next() call, in order *)
DeliveredOf(publish) == SelectSeq(delivered, LAMBDA d : d.publish = publish)

(* C15: when a publish returns, every observer of the subject has received  *)
(* the published value exactly once, in the order of subscription; with no  *)
(* observer the publish returns normally and nothing was delivered.         *)
C15_DeliveredOnceInSubscriptionOrder ==
    [][EventStreamSubject_next_returns =>
          LET f == publishing[Len(publishing)]
              got == DeliveredOf(f.publish)
          IN /\ Len(got) = Len(subjects[f.subject])
             /\ \A i \in 1..Len(got) : got[i] = Delivery(f.publish, f.subject, i, f.value)
             /\ last_call'.result = "done"
             /\ delivered' = delivered]_vars

C15_Witness ==
    /\ last_call.op = "next"
    /\ last_call.result = "done"
    /\ publishing = <<>>
    /\ Len(DeliveredOf(last_call.id)) > 1
    /\ \E p \in 1..(next_publish - 1) : DeliveredOf(p) = <<>>

(* C16: an observer that publishes to a subject whose publish is still in   *)
(* progress (the one calling it, or one further out) panics; nothing of the *)
(* nested publish is delivered and no subject is ever published to twice at *)
(* the same time.                                                          *)
C16_NestedPublishToSameSubjectPanics ==
    /\ [][Observer_call =>
             LET f == publishing[Len(publishing)]
                 o == subjects[f.subject][f.at]
                 target == IF o.reaction = "next_same" THEN f.subject
                           ELSE OtherSubject(f.subject)
             IN (/\ o.reaction # "none"
                 /\ \E i \in 1..Len(publishing) : publishing[i].subject = target) =>
                    /\ last_call'.result = "panic"
                    /\ delivered' = Append(delivered,
                                           Delivery(f.publish, f.subject, o.n, f.value))
                    /\ Len(publishing') <= Len(publishing)
                    /\ next_publish' = next_publish]_vars
    /\ [](\A i, j \in 1..Len(publishing) :
             i # j => publishing[i].subject # publishing[j].subject)

C16_Witness ==
    /\ last_call.op = "next"
    /\ last_call.result = "panic"
    /\ Len(delivered) > 1
    /\ delivered[Len(delivered)].subject # delivered[Len(delivered) - 1].subject
    /\ delivered[Len(delivered)].publish # delivered[Len(delivered) - 1].publish

(* C17: an observer that publishes to a subject with no publish in progress *)
(* starts that publish although another subject's publish is in progress,   *)
(* and when the nested publish returns every observer of its subject has    *)
(* received the value.                                                     *)
C17_NestedPublishToOtherSubjectSucceeds ==
    [][/\ Observer_call =>
             LET f == publishing[Len(publishing)]
                 o == subjects[f.subject][f.at]
                 target == OtherSubject(f.subject)
             IN (/\ o.reaction = "next_other"
                 /\ \A i \in 1..Len(publishing) : publishing[i].subject # target) =>
                    /\ last_call'.result = "running"
                    /\ Len(publishing') = Len(publishing) + 1
                    /\ publishing'[Len(publishing')] =
                          Publishing(next_publish, target, f.value)
       /\ (EventStreamSubject_next_returns /\ Len(publishing) > 1) =>
             LET f == publishing[Len(publishing)]
                 got == DeliveredOf(f.publish)
             IN /\ Len(got) = Len(subjects[f.subject])
                /\ \A i \in 1..Len(got) :
                      /\ got[i].observer = i
                      /\ got[i].value = publishing[Len(publishing) - 1].value]_vars

C17_Witness ==
    /\ last_call.op = "next"
    /\ last_call.result = "done"
    /\ Len(publishing) = 1
    /\ publishing[1].subject = "action_invoked"
    /\ Len(DeliveredOf(last_call.id)) > 1
    /\ \A i \in 1..Len(DeliveredOf(last_call.id)) :
          DeliveredOf(last_call.id)[i].subject = "track_added"

(* C18: a task enters a queue only at its tail; a pre-phase audio callback  *)
(* runs the task at the head of the audio queue; a drain cycle runs the     *)
(* tasks it runs in the order they have in the main queue.  Hence the tasks *)
(* of each queue run in the order in which the queue accepted them.         *)
C18_QueuesAreFifo ==
    [][/\ Len(audio_queue') > Len(audio_queue) =>
             audio_queue' = Append(audio_queue, audio_queue'[Len(audio_queue')])
       /\ Len(main_queue') > Len(main_queue) =>
             main_queue' = Append(main_queue, main_queue'[Len(main_queue')])
       /\ (HighOnAudioBuffer_call(FALSE) /\ audio_queue # <<>>) =>
             /\ executed' = Append(executed, Executed(Head(audio_queue), "audio_hook"))
             /\ audio_queue' = Tail(audio_queue)
       /\ HelperControlSurface_run =>
             LET new == SubSeq(executed', Len(executed) + 1, Len(executed'))
                 Pos(id) == CHOOSE k \in 1..Len(main_queue) : main_queue[k].id = id
             IN /\ \A i \in 1..Len(new) : new[i].id \in QueueIds(main_queue)
                /\ \A i, j \in 1..Len(new) : i < j => Pos(new[i].id) < Pos(new[j].id)]_vars

C18_Witness ==
    /\ last_call.op = "on_audio_buffer_pre"
    /\ \E i, j \in 1..Len(executed) :
          /\ i < j
          /\ executed[i].by = "audio_hook"
          /\ executed[j].by = "audio_hook"
    /\ \E i \in 1..Len(executed) : executed[i].by = "run"

(* C19: no task runs twice, a task that ran is in no queue and in no        *)
(* pending send any more, and a task that a discard removed has not run     *)
(* and is in no queue.                                                     *)
C19_ExecutedAtMostOnce ==
    /\ \A i, j \in 1..Len(executed) : i # j => executed[i].id # executed[j].id
    /\ ExecutedIds(executed)
          \cap (QueueIds(main_queue) \cup Range(audio_queue) \cup ParkedIds) = {}
    /\ (discarded_main \cup discarded_audio)
          \cap (ExecutedIds(executed) \cup QueueIds(main_queue) \cup Range(audio_queue)) = {}

C19_Witness ==
    /\ last_call.op = "on_audio_buffer_pre"
    /\ executed # <<>>
    /\ executed[Len(executed)].by = "audio_hook"
    /\ discarded_audio # {}
    /\ discarded_main # {}
    /\ \A d \in discarded_audio : d < executed[Len(executed)].id

(* C20: a drain cycle runs a queued task exactly if the task has no         *)
(* deadline or the time asked for is not later than now; the other tasks    *)
(* stay queued in their order, whatever their place in the queue.           *)
C20_DrainRunsExactlyDueTasks ==
    [][HelperControlSurface_run =>
          LET ran == ExecutedIds(executed') \ ExecutedIds(executed)
              DueNow(task) == \A r \in requested : r.id = task.id => r.not_before <= now
          IN /\ ran \subseteq QueueIds(main_queue)
             /\ \A i \in 1..Len(main_queue) :
                   (main_queue[i].id \in ran) <=> DueNow(main_queue[i])
             /\ main_queue' = SelectSeq(main_queue, LAMBDA task : ~DueNow(task))]_vars

C20_Witness ==
    /\ last_call.op = "run"
    /\ \A t \in Threads : blocked[t] = NotBlocked
    /\ executed # <<>>
    /\ executed[Len(executed)].by = "run"
    /\ \E i \in 1..Len(main_queue) :
          /\ main_queue[i].some
          /\ now < main_queue[i].at
          /\ main_queue[i].id < executed[Len(executed)].id

(* C21: a due task that panics while a drain cycle executes it stops        *)
(* neither the cycle nor the cycles after it: the cycle executes every one   *)
(* of its due tasks, in order, those queued behind the failed one included   *)
(* (they are what the failure record lists as run after it), and as long as  *)
(* the control surface is registered a further cycle can run, whatever has   *)
(* failed before.                                                          *)
C21_FailedTaskIsIsolated ==
    /\ [][HelperControlSurface_run =>
             LET due == DueTasks(main_queue)
                 failed == {i \in 1..Len(due) : task_ops[due[i].id] = "panics"}
             IN /\ Len(executed') = Len(executed) + Len(due)
                /\ \A i \in 1..Len(due) :
                      executed'[Len(executed) + i] = Executed(due[i].id, "run")
                /\ Len(panicked') = Len(panicked) + Cardinality(failed)
                /\ \A i \in failed :
                      \E k \in (Len(panicked) + 1)..Len(panicked') :
                          /\ panicked'[k].id = due[i].id
                          /\ panicked'[k].then =
                                 [j \in 1..(Len(due) - i) |-> due[i + j].id]]_vars
    /\ [](("csurf_inst" \in Range(host_registered) /\ blocked["main"] = NotBlocked)
              => ENABLED HelperControlSurface_run)

(* A task failed, the cycle went on to run the task behind it, and a later  *)
(* cycle ran another task.                                                 *)
C21_Witness ==
    \E k \in 1..Len(panicked) :
        /\ panicked[k].then # <<>>
        /\ \A id \in Range(panicked[k].then) : id \in ExecutedIds(executed)
        /\ \E i, j \in 1..Len(executed) :
              /\ i < j
              /\ executed[i].id = panicked[k].id
              /\ executed[j].by = "run"
              /\ executed[j].id \notin Range(panicked[k].then)

(* C22: a main-thread entry point (builder setup, medium / medium_mut,      *)
(* activate, deactivate, register_action, RegisteredAction::unregister, an  *)
(* event subscription getter, entering or leaving an undo block) called     *)
(* from a thread other than the main thread panics, and the call leaves     *)
(* every part of the session's state as it was.                            *)
C22_WrongThreadFailsFast ==
    [][\A t \in Threads \ {"main"} :
          (\/ ReaperBuilder_setup_on(t)
           \/ medium_on(t)
           \/ activate_on(t)
           \/ deactivate_on(t)
           \/ \E command_id \in CommandIds, body \in OperationBodies, toggle \in BOOLEAN :
                  register_action_on(t, command_id, body, toggle)
           \/ \E action \in registered_actions : RegisteredAction_unregister_on(t, action)
           \/ \E s \in SubjectNames, reaction \in Reactions : subscribe_on(t, s, reaction)
           \/ enter_undo_block_internal_on(t)
           \/ leave_undo_block_internal_on(t))
          => /\ last_call'.thread = t
             /\ last_call'.result = "panic"
             /\ UNCHANGED <<sched_vars, reg_vars, guard_vars, bus_vars, rest_vars>>]_vars

(* deactivate was called from the audio thread while the session was        *)
(* active, held a registered action, a subscription and an undo block.      *)
C22_Witness ==
    /\ last_call = Call("deactivate", "audio", 0, FALSE, "panic")
    /\ active_data # <<>>
    /\ command_by_id # <<>>
    /\ subjects["action_invoked"] # <<>>
    /\ undo_block_is_active

(* C23: register_action puts the new Command into the registry only when    *)
(* the registry has no entry for the command id; when it has one, the map   *)
(* (operation and toggle kind of that entry included) stays as it is, and    *)
(* a dispatch for the id starts the operation the map holds, which is the    *)
(* one registered first, and counts an invocation for that closure alone.    *)
C23_RegisterKeepsExistingEntry ==
    /\ [][\A command_id \in CommandIds, body \in OperationBodies, toggle \in BOOLEAN :
             (register_action(command_id, body, toggle) /\ last_call'.result = "done")
             => IF command_id \in DOMAIN command_by_id
                THEN command_by_id' = command_by_id
                ELSE /\ DOMAIN command_by_id' = DOMAIN command_by_id \cup {command_id}
                     /\ command_by_id'[command_id] =
                            Command(Operation(next_rc, body),
                                    IF toggle THEN Toggleable(next_rc) ELSE NotToggleable)
                     /\ \A k \in DOMAIN command_by_id :
                            command_by_id'[k] = command_by_id[k]]_vars
    /\ [][\A command_id \in DOMAIN command_by_id :
             HighLevelHookCommand_call(command_id)
             => stack'[Len(stack')].operation = command_by_id[command_id].operation]_vars
    /\ [][HookCommand_operation
             => invocations' = [invocations EXCEPT
                                   ![stack[Len(stack)].operation.rc] = @ + 1]]_vars

(* The same command id was registered twice; the dispatch that followed     *)
(* invoked the closure of the first registration, not that of the second.   *)
C23_Witness ==
    \E command_id \in DOMAIN command_by_id :
        /\ last_call = Call("hook_command", "main", command_id, FALSE, "handled")
        /\ \E first, second \in registered_actions :
              /\ first.command_id = command_id
              /\ second.command_id = command_id
              /\ first.gaccel_handle < second.gaccel_handle
              /\ command_by_id[command_id].operation.rc = first.gaccel_handle
              /\ invocations[first.gaccel_handle] = 1
              /\ invocations[second.gaccel_handle] = 0

(* C24: after unregister() on a RegisteredAction that register_action       *)
(* returned (one returned for an id that already had a registry entry        *)
(* included), the host no longer lists that action's entry and the          *)
(* registry has no entry for its command id.                               *)
C24_UnregisterRemovesBoth ==
    [][\A action \in registered_actions :
          RegisteredAction_unregister(action)
          => /\ action \notin host_gaccel'
             /\ action.command_id \notin DOMAIN command_by_id']_vars

(* C25: the registry entry of a command id stays, with the same Command,    *)
(* through every step that is not an unregistration of that id: through     *)
(* registrations, unregistrations of other ids, dispatches and the           *)
(* operations they run, toggle queries, activate, deactivate and the         *)
(* scheduling of tasks.                                                    *)
C25_EntryStaysUntilUnregistered ==
    [][\A command_id \in DOMAIN command_by_id :
          LET unregistered ==
                  \/ \E action \in registered_actions :
                        /\ action.command_id = command_id
                        /\ RegisteredAction_unregister(action)
                  \/ /\ HookCommand_operation
                     /\ stack[Len(stack)].operation.body = "unregister"
                     /\ OtherCommand(stack[Len(stack)].command_id) = command_id
          IN ~unregistered
             => /\ command_id \in DOMAIN command_by_id'
                /\ command_by_id'[command_id] = command_by_id[command_id]]_vars

(* The entry of the first registration is still there after it was          *)
(* dispatched, another id was registered and unregistered, a task was       *)
(* scheduled and the session was activated and deactivated.                 *)
C25_Witness ==
    \E command_id \in DOMAIN command_by_id :
        /\ command_by_id[command_id].operation.rc = 1
        /\ invocations[1] = 1
        /\ \E other \in registered_actions \ host_gaccel :
              other.command_id # command_id
        /\ next_task > 1
        /\ active_data = <<>>
        /\ host_calls = DeactivateCalls

(* C26: unregister() of an action whose command id has a registry entry     *)
(* first removes the action's entry from the host and then removes the       *)
(* registry entry, and does nothing else to either: in the state between     *)
(* the two removals the host no longer lists the action and the registry     *)
(* entry is still there.                                                   *)
C26_HostEntryRemovedFirst ==
    [][\A action \in registered_actions :
          (/\ RegisteredAction_unregister(action)
           /\ action.command_id \in DOMAIN command_by_id)
          => /\ registry_log' = << <<"remove_gaccel", action.gaccel_handle>>,
                                   <<"remove_entry", action.command_id>> >>
             /\ host_gaccel' = host_gaccel \ {action}
             /\ command_by_id' = RemoveEntry(command_by_id, action.command_id)]_vars

(* An action was unregistered while the registry held its id and the id of  *)
(* another action.                                                         *)
C26_Witness ==
    /\ last_call.op = "unregister"
    /\ last_call.result = "done"
    /\ Len(registry_log) = 2
    /\ registry_log[1][1] = "remove_gaccel"
    /\ registry_log[2] = <<"remove_entry", last_call.id>>
    /\ last_call.id \notin DOMAIN command_by_id
    /\ command_by_id # <<>>
    /\ host_gaccel # {}

(* C27: a dispatch (hook_command) for an id without registry entry returns  *)
(* "not handled" to the host: it does not panic, starts no operation,        *)
(* counts no invocation and leaves the registry and the host's action        *)
(* entries as they are.                                                    *)
C27_AbsentIdIsNotHandled ==
    [][\A command_id \in DispatchIds :
          (/\ HighLevelHookCommand_call(command_id)
           /\ command_id \notin DOMAIN command_by_id)
          => /\ last_call' = Call("hook_command", "main", command_id, FALSE, "not handled")
             /\ UNCHANGED <<command_by_id, command_by_id_borrow, host_gaccel,
                            registered_actions, stack, invocations, next_rc>>]_vars

(* The host dispatched an id whose action had been registered and then      *)
(* unregistered, while another id was still registered.                     *)
C27_Witness ==
    /\ last_call.op = "hook_command"
    /\ last_call.result = "not handled"
    /\ last_call.id \notin DOMAIN command_by_id
    /\ \E action \in registered_actions : action.command_id = last_call.id
    /\ command_by_id # <<>>

(* C28: a call of the audio hook in the post phase does no work: it takes   *)
(* no task from the audio queue and runs none, nobody is subscribed by it,   *)
(* it reads the buffer of no MIDI input device and pushes no event to the    *)
(* MIDI subject.                                                           *)
C28_PostPhaseDoesNothing ==
    [][HighOnAudioBuffer_call(TRUE)
          => /\ UNCHANGED <<audio_queue, main_queue, executed, midi_observers, midi_inputs>>
             /\ midi_read' = <<>>
             /\ midi_pushed' = <<>>]_vars

(* A post-phase call found a queued task, a subscriber and a buffered       *)
(* message that is not active sensing.                                     *)
C28_Witness ==
    /\ last_call.op = "on_audio_buffer_post"
    /\ audio_queue # <<>>
    /\ midi_observers > 0
    /\ \E device \in MidiInputDeviceIds :
          OwnedEvents(enum_items(midi_inputs[device], 0)) # <<>>
    /\ midi_read = <<>>
    /\ midi_pushed = <<>>

(* C29: a call of the audio hook in the pre phase first takes at most one   *)
(* task from the audio queue and runs it, and reads the MIDI input devices   *)
(* only if the MIDI subject then has a subscriber: with no subscriber no     *)
(* device is read and nothing is pushed, with one every device is read in    *)
(* order.                                                                  *)
C29_MidiReadOnlyWithSubscriber ==
    [][HighOnAudioBuffer_call(FALSE)
          => /\ IF audio_queue = <<>>
                THEN UNCHANGED <<audio_queue, executed>>
                ELSE /\ audio_queue' = Tail(audio_queue)
                     /\ executed' = Append(executed,
                                           Executed(Head(audio_queue), "audio_hook"))
             /\ IF midi_observers' = 0
                THEN /\ midi_read' = <<>>
                     /\ midi_pushed' = <<>>
                ELSE midi_read' = [i \in 1..MaxMidiInputs |-> i - 1]]_vars

(* A pre-phase call ran the only task submitted although nobody was         *)
(* subscribed, and left the buffered message unread.                        *)
C29_Witness ==
    /\ last_call.op = "on_audio_buffer_pre"
    /\ midi_observers = 0
    /\ next_task = 2
    /\ executed = <<Executed(1, "audio_hook")>>
    /\ \E device \in MidiInputDeviceIds :
          OwnedEvents(enum_items(midi_inputs[device], 0)) # <<>>
    /\ midi_read = <<>>
    /\ midi_pushed = <<>>

C31_HandlesIffRegistered ==
    /\ (active_data # <<>>)
          <=> (\A adapter \in Range(ActivateRegistrations) :
                  adapter \in Range(host_registered))
    /\ active_data # <<>> =>
          /\ active_data = <<ActiveData>>
          /\ host_registered = ActivateRegistrations
    /\ active_data = <<>> => host_registered = <<>>
    /\ last_call = Call("activate", "main", 0, FALSE, "done") => active_data # <<>>
    /\ last_call = Call("deactivate", "main", 0, FALSE, "done") => active_data = <<>>

(* The session was deactivated after it had been activated a second time,   *)
(* an activation that discarded tasks of both queues.                       *)
C31_Witness ==
    /\ last_call = Call("deactivate", "main", 0, FALSE, "done")
    /\ active_data = <<>>
    /\ host_registered = <<>>
    /\ Len(logger) = 2

(* C32: the main-thread queue never holds more tasks than                   *)
(* MAX_MAIN_THREAD_TASKS and the audio-thread queue never more than          *)
(* MAX_AUDIO_THREAD_TASKS, whichever threads submit and however their        *)
(* submissions interleave with the consumers, with activate() and with       *)
(* deactivate(); the two capacities are the ones the channels were created   *)
(* with.                                                                    *)
C32_QueuesWithinCapacity ==
    /\ Len(main_queue) <= MAX_MAIN_THREAD_TASKS
    /\ Len(audio_queue) <= MAX_AUDIO_THREAD_TASKS

(* The main-thread queue is full and a submission of the audio thread waits *)
(* for room in it.                                                         *)
C32_Witness ==
    /\ Len(main_queue) = MAX_MAIN_THREAD_TASKS
    /\ blocked["audio"].queue = "main"
    /\ last_call.was_full

(* The tasks the audio hook ran, in order *)
RanInAudioHook(e) == SelectSeq(e, LAMBDA x : x.by = "audio_hook")

(* C33: in an active session a pre-phase call of the audio hook runs the    *)
(* task at the head of the audio queue and moves every other task one        *)
(* place forward, and no other step moves a queued task; so a task with k    *)
(* tasks ahead of it is run by the (k+1)-th pre-phase call that follows.     *)
(* Hence, if the host keeps calling the audio hook, every task that is in    *)
(* the audio queue of the active session is eventually executed.            *)
C33_AudioTaskEventuallyRuns ==
    /\ [][(HighOnAudioBuffer_call(FALSE) /\ audio_queue # <<>>)
             => /\ executed' = Append(executed, Executed(Head(audio_queue), "audio_hook"))
                /\ audio_queue' = Tail(audio_queue)]_vars
    /\ [][(active_data # <<>> /\ ~HighOnAudioBuffer_call(FALSE))
             => /\ Len(audio_queue') >= Len(audio_queue)
                /\ SubSeq(audio_queue', 1, Len(audio_queue)) = audio_queue
                /\ RanInAudioHook(executed') = RanInAudioHook(executed)]_vars
    /\ ([]<><<HighOnAudioBuffer_call(FALSE)>>_vars)
          => \A id \in TaskIds :
                (id \in Range(audio_queue) /\ active_data # <<>>)
                    ~> (id \in ExecutedIds(executed))

(* Every task was submitted to the audio queue of the active session, the   *)
(* last of them behind another one, and the audio hook has run them all,     *)
(* one per call, the last one last.                                        *)
C33_Witness ==
    /\ last_call.op = "on_audio_buffer_pre"
    /\ active_data # <<>>
    /\ next_task > MaxTasks
    /\ discarded_audio = {}
    /\ audio_queue = <<>>
    /\ Len(executed) = MaxTasks
    /\ executed[Len(executed)] = Executed(MaxTasks, "audio_hook")

(* The buffered events of the devices 0 .. n-1, device after device, each   *)
(* device's events in the order of its buffer                               *)
RECURSIVE BufferedInPortOrder(_)
BufferedInPortOrder(n) ==
    IF n = 0 THEN <<>> ELSE BufferedInPortOrder(n - 1) \o midi_inputs[n - 1]

C35_PostCommandPublishesOnce ==
    /\ [][\A command_id \in DispatchIds :
             HighLevelHookPostCommand_call(command_id)
             => /\ publishing' = <<Publishing(next_publish, "action_invoked", command_id)>>
                /\ next_publish' = next_publish + 1
                /\ last_call'.result = "running"
                /\ UNCHANGED <<command_by_id, host_gaccel, registered_actions, subjects,
                               delivered>>]_vars
    /\ [][(EventStreamSubject_next_returns /\ publishing[1].subject = "action_invoked")
             => LET got == DeliveredOf(publishing[1].publish)
                IN /\ Len(got) = Len(subjects["action_invoked"])
                   /\ \A i \in 1..Len(got) :
                         got[i] = Delivery(publishing[1].publish, "action_invoked", i,
                                           publishing[1].value)]_vars
    /\ [][(Observer_call \/ EventStreamSubject_next_returns)
             => UNCHANGED <<command_by_id, host_gaccel, registered_actions>>]_vars

(* The host reported an action of the registry and a foreign action; each   *)
(* of the two observers received both.                                      *)
C35_Witness ==
    /\ publishing = <<>>
    /\ last_call.op = "next"
    /\ last_call.result = "done"
    /\ MaxCommands \in DOMAIN command_by_id
    /\ Len(subjects["action_invoked"]) = 2
    /\ Len(delivered) = 4
    /\ \E p, q \in 1..(next_publish - 1) :
          /\ Len(DeliveredOf(p)) = 2
          /\ Len(DeliveredOf(q)) = 2
          /\ \A i \in 1..2 : DeliveredOf(p)[i].value = MaxCommands
          /\ \A i \in 1..2 : DeliveredOf(q)[i].value = ForeignCommandId

(* C36: enter_undo_block_internal begins a block at the host and returns a  *)
(* handle exactly when no block is active, and otherwise returns None        *)
(* without a host call; leave_undo_block_internal ends the host's block      *)
(* exactly when one is active and otherwise does nothing.  So the host       *)
(* receives begin and end calls strictly in turn, beginning with a begin,    *)
(* and undoable_action_is_running() answers true exactly while the last      *)
(* call the host received is a begin.                                      *)
C36_UndoBlocksNeverNest ==
    /\ [][enter_undo_block_internal
             => IF undo_block_is_active
                THEN /\ last_call'.result = "None"
                     /\ UNCHANGED <<host_undo, undo_block_is_active>>
                ELSE /\ last_call'.result = "Some"
                     /\ host_undo' = Append(host_undo, "undo_begin_block_2")
                     /\ undo_block_is_active']_vars
    /\ [][leave_undo_block_internal
             => IF undo_block_is_active
                THEN /\ host_undo' = Append(host_undo, "undo_end_block_2")
                     /\ ~undo_block_is_active'
                ELSE UNCHANGED <<host_undo, undo_block_is_active>>]_vars
    /\ [](\A i \in 1..Len(host_undo) :
             host_undo[i] = IF i % 2 = 1 THEN "undo_begin_block_2" ELSE "undo_end_block_2")
    /\ [](undo_block_is_active <=> (Len(host_undo) % 2 = 1))
    /\ [](last_call.op = "undoable_action_is_running"
             => (last_call.result = "true"
                    <=> /\ host_undo # <<>>
                        /\ host_undo[Len(host_undo)] = "undo_begin_block_2"))

(* A second block was begun after the first had ended, and an attempt to    *)
(* enter a further block while it was active returned None.                 *)
C36_Witness ==
    /\ last_call = Call("enter_undo_block", "main", 0, FALSE, "None")
    /\ undo_block_is_active
    /\ host_undo = <<"undo_begin_block_2", "undo_end_block_2", "undo_begin_block_2">>

(* C37: over any number of setup calls from any thread, a session is        *)
(* created and stored only by the first call that gets to call_once, when    *)
(* no instance exists; there is never more than that one instance; every     *)
(* later call leaves the instance and its registry, subjects, queues,        *)
(* handles and undo flag as they are.                                      *)
C37_SetupCreatesOnce ==
    /\ [][ReaperBuilder_setup
             => IF static_INSTANCE = 0
                THEN /\ static_INSTANCE' = 1
                     /\ INIT_INSTANCE'
                ELSE UNCHANGED <<sched_vars, reg_vars, guard_vars, bus_vars, rest_vars>>]_vars
    /\ [][static_INSTANCE' # static_INSTANCE
             => (static_INSTANCE = 0 /\ ReaperBuilder_setup)]_vars
    /\ [](static_INSTANCE <= 1)
    /\ [](INIT_INSTANCE <=> static_INSTANCE = 1)

(* setup was called again on the main thread while the session was active,  *)
(* held a registered action, an observer and a queued task.                 *)
C37_Witness ==
    /\ last_call = Call("setup", "main", 0, FALSE, "done")
    /\ static_INSTANCE = 1
    /\ active_data # <<>>
    /\ command_by_id # <<>>
    /\ subjects["action_invoked"] # <<>>
    /\ main_queue # <<>>

C39_OperationCellHeldExclusively ==
    /\ [][HighLevelHookCommand_call_from_operation
             => LET frame == stack[Len(stack)]
                    command_id == IF frame.operation.body = "dispatch_same"
                                  THEN frame.command_id
                                  ELSE OtherCommand(frame.command_id)
                IN /\ last_call'.id = command_id
                   /\ command_id \in DOMAIN command_by_id =>
                         IF \E i \in 1..Len(stack) :
                                stack[i].operation = command_by_id[command_id].operation
                         THEN /\ last_call'.result = "panic"
                              /\ stack' \in {stack, <<>>}
                              /\ invocations' = invocations
                         ELSE /\ last_call'.result = "running"
                              /\ Len(stack') = Len(stack) + 1
                              /\ SubSeq(stack', 1, Len(stack)) = stack
                              /\ stack'[Len(stack')].operation =
                                     command_by_id[command_id].operation
                   /\ (/\ frame.operation.body = "dispatch_same"
                       /\ command_by_id[frame.command_id].operation = frame.operation)
                         => last_call'.result = "panic"]_vars
    /\ [][(HookCommand_operation /\ Len(stack) > 1)
             => /\ invocations' =
                      [invocations EXCEPT ![stack[Len(stack)].operation.rc] = @ + 1]
                /\ stack' = SubSeq(stack, 1, Len(stack) - 1)
                /\ last_call'.result = "handled"]_vars
    /\ [](\A i, j \in 1..Len(stack) :
             i # j => stack[i].operation.rc # stack[j].operation.rc)

(* The operation of one command dispatched the other command, whose         *)
(* operation was started and in turn dispatched the first command: that      *)
(* dispatch panicked, with both operations still running.                   *)
C39_Witness ==
    /\ last_call.op = "hook_command"
    /\ last_call.result = "panic"
    /\ Len(stack) = 2
    /\ stack[1].command_id = last_call.id
    /\ stack[2].command_id # last_call.id
    /\ stack[1].operation = command_by_id[last_call.id].operation

(* C40: try_from_raw and to_raw are inverse on the valid range: converting  *)
(* a mode to its raw value gives an integer that try_from_raw converts back  *)
(* to that mode; every integer from 0 to 5 is converted to a mode whose raw   *)
(* value is that integer; every other integer is converted to an error.      *)
C40_RawConversionsAreInverse ==
    /\ [][AutomationMode_to_raw
             => try_from_raw(automation_raw') = Ok(automation_mode.mode)]_vars
    /\ [][AutomationMode_try_from_raw
             => IF automation_raw \in 0..5
                THEN /\ automation_mode'.ok
                     /\ automation_mode'.mode \in AutomationModes
                     /\ to_raw(automation_mode'.mode) = automation_raw
                ELSE automation_mode' = ConversionFromRawFailed]_vars
    /\ [](last_call.op = "try_from_raw" /\ automation_mode.ok
             => to_raw(automation_mode.mode) = last_call.id)

(* The raw value of Write was converted to 3 and 3 was converted back to    *)
(* Write.                                                                  *)
C40_Witness ==
    /\ last_call = Call("try_from_raw", "main", 3, FALSE, "ok")
    /\ automation_raw = 3
    /\ automation_mode = Ok("Write")

====
